---- MODULE Spec2Model ----
(***************************************************************************)
(* A model of the internal-slice fill pass of the SSA optimiser            *)
(* (compiler/noirc_evaluator/src/ssa/opt/fill_internal_slices.rs).         *)
(*                                                                         *)
(* The pass is run over a small program: a sequence of functions, each     *)
(* with a data flow graph (a table of values), blocks of instructions, a   *)
(* terminator per block and a data bus.  One action models one step of     *)
(* Ssa::fill_internal_slices and of the Context methods it calls.          *)
(***************************************************************************)
EXTENDS Integers, Sequences, FiniteSets, TLC

(* ---------------------------- bounds ----------------------------------- *)
MaxLen == 4        \* largest length of an inner slice constant of an input
MaxRows == 3       \* largest number of rows of an outer slice constant

(* ---------------------------- types ------------------------------------ *)
\* ir::types::Type, a closed algebra: Numeric, Array, Slice, Reference, Function
NumericT(bits) == [k |-> "Numeric", el |-> <<>>, len |-> bits]
ArrayT(el, n) == [k |-> "Array", el |-> el, len |-> n]
SliceT(el) == [k |-> "Slice", el |-> el, len |-> 0]
ReferenceT(t) == [k |-> "Reference", el |-> <<t>>, len |-> 0]
FunctionT == [k |-> "Function", el |-> <<>>, len |-> 0]

\* Type::field() and an unsigned 8 bit integer type
FieldT == NumericT(0)
U8T == NumericT(8)

RECURSIVE contains_slice_element(_)
RECURSIVE AnySliceElement(_, _)
\* elements.iter().any(|element| element.contains_slice_element())
AnySliceElement(el, i) ==
    IF i > Len(el) THEN FALSE
    ELSE contains_slice_element(el[i]) \/ AnySliceElement(el, i + 1)

\* Type::contains_slice_element: a slice, or an array with a slice inside
contains_slice_element(typ) ==
    CASE typ.k = "Slice" -> TRUE
      [] typ.k = "Array" -> AnySliceElement(typ.el, 1)
      [] OTHER -> FALSE

RECURSIVE compute_nested_slice_depth(_)
RECURSIVE SumDepth(_, _)
SumDepth(el, i) ==
    IF i > Len(el) THEN 0
    ELSE compute_nested_slice_depth(el[i]) + SumDepth(el, i + 1)

\* compute_nested_slice_depth with a slip: an array adds a level of its own
compute_nested_slice_depth_array_level(typ) ==
    CASE typ.k = "Slice" -> 1 + SumDepth(typ.el, 1)
      [] typ.k = "Reference" -> SumDepth(typ.el, 1)
      [] typ.k = "Array" -> 1 + SumDepth(typ.el, 1)
      [] OTHER -> 0

\* Context::compute_nested_slice_depth
compute_nested_slice_depth(typ) ==
    CASE typ.k = "Slice" -> 1 + SumDepth(typ.el, 1)
      [] typ.k = "Reference" -> SumDepth(typ.el, 1)
      [] typ.k = "Array" -> SumDepth(typ.el, 1)
      [] OTHER -> 0

(* ---------------------------- values ----------------------------------- *)
\* ir::value::Value; a ValueId is an index of the dfg's value table
NumericConstant(n, typ) == [k |-> "NumericConstant", typ |-> typ, n |-> n, array |-> <<>>]
ArrayValue(array, typ) == [k |-> "Array", typ |-> typ, n |-> 0, array |-> array]
ParamValue(typ) == [k |-> "Param", typ |-> typ, n |-> 0, array |-> <<>>]
InstructionValue(typ) == [k |-> "Instruction", typ |-> typ, n |-> 0, array |-> <<>>]
FunctionValue(n) == [k |-> "Function", typ |-> FunctionT, n |-> n, array |-> <<>>]

\* DataFlowGraph::type_of_value
type_of_value(dfg, v) == dfg[v].typ

(* ---------------------------- instructions ----------------------------- *)
\* ir::instruction::Instruction with its result values and its call stack.
\* ArrayGet { array, index }        args = <<array, index>>
\* ArraySet { array, index, value } args = <<array, index, value>>
\* Call { func, arguments }         args = arguments
\* any other instruction ("Other")  args = its operands
Instruction(op, func, args, results, cs) ==
    [op |-> op, func |-> func, args |-> args, results |-> results, cs |-> cs]

\* Intrinsic::SlicePushBack and Intrinsic::SlicePopBack, as numbers of FunctionValue
SlicePushBack == 1
SlicePopBack == 2

(* ---------------------------- input programs --------------------------- *)
\* The constants 0 .. NC-1 are the values 1 .. NC of every input dfg.
NC == MaxLen + MaxRows + 1
cid(n) == n + 1
ParamId == NC + 1          \* v0: Field, the parameter of the function
FuncId == NC + 2           \* an ordinary function value, the callee of a Call
PushBackId == NC + 3       \* the slice_push_back intrinsic
PopBackId == NC + 4        \* the slice_pop_back intrinsic
PRE == NC + 4

Prefix ==
    [i \in 1..NC |-> NumericConstant(i - 1, FieldT)]
        \o <<ParamValue(FieldT), FunctionValue(0),
             FunctionValue(SlicePushBack), FunctionValue(SlicePopBack)>>

\* [Field] and [(Field, [Field])]: a slice is a (length, contents) pair
FieldSlice == SliceT(<<FieldT>>)
NestedSlice == SliceT(<<FieldT, FieldSlice>>)

\* the length of row i of an input: l1 for odd rows, l2 for even rows
RowLen(l1, l2, i) == IF i % 2 = 1 THEN l1 ELSE l2

\* builder.array_constant(vector![c; l], [Field]) with every element Field i
FlatSlice(l, i) == ArrayValue([j \in 1..l |-> cid(i)], FieldSlice)

\* the values PRE+1 .. PRE+n: the inner slice contents of rows 1 .. n
InnerSlices(n, l1, l2) == [i \in 1..n |-> FlatSlice(RowLen(l1, l2, i), i)]

\* rows of w elements each, row i being Row(i), flattened
Flatten(n, w, Row(_)) == [p \in 1..(n * w) |-> Row(((p - 1) \div w) + 1)[((p - 1) % w) + 1]]

\* [Field; 2], [[Field]; 2], [fn; 1] and the slice types built on them
FieldArray2 == ArrayT(<<FieldT>>, 2)
SliceArray2 == ArrayT(<<FieldSlice>>, 2)
FnArray1 == ArrayT(<<FunctionT>>, 1)
FnRowSlice == SliceT(<<FieldT, FunctionT>>)
FnArraySlice == SliceT(<<FnArray1>>)
ArraySliceSlice == SliceT(<<FieldT, SliceArray2>>)
U8Slice == SliceT(<<U8T>>)
U8NestedSlice == SliceT(<<U8T, U8Slice>>)
MidSlice == SliceT(<<FieldArray2, FieldSlice>>)
SliceOfSlices == SliceT(<<FieldSlice>>)
MixedSlice == SliceT(<<FieldSlice, SliceOfSlices>>)
DeepSlice == SliceT(<<MidSlice>>)

Block(instructions, terminator) ==
    [instructions |-> instructions, terminator |-> terminator]
Function(runtime, dfg, blocks, data_bus) ==
    [runtime |-> runtime, dfg |-> dfg, blocks |-> blocks, data_bus |-> data_bus]

Shapes == {"get", "set", "call1", "call2", "callflat", "fnrow", "fnarr",
           "arrslice", "deep", "multiblock", "intrinsic",
           "getinner", "idx", "u8", "mixed"}

\* the nested slice constant [(len_1, inner_1), .., (len_n, inner_n)] of the
\* test test_simple_nested_slice, generalised to n rows
NestedRoot(n, l1, l2) ==
    LET Row(i) == <<cid(RowLen(l1, l2, i)), PRE + i>>
    IN  ArrayValue(Flatten(n, 2, Row), NestedSlice)

\* The input functions: a function builder run for each shape.
InputFunction(shape, rt, n, l1, l2) ==
    LET X == PRE + n
        In == Prefix \o InnerSlices(n, l1, l2)
        R == NestedRoot(n, l1, l2)
    IN
    CASE shape = "get" ->
           \* v = lt v0, 2; g = array_get R, index v0; constrain g == 4; return g
           Function(rt,
             In \o <<R, InstructionValue(FieldT), InstructionValue(FieldT)>>,
             <<Block(<<Instruction("Other", 0, <<ParamId, cid(2)>>, <<X + 2>>, 1),
                       Instruction("ArrayGet", 0, <<X + 1, ParamId>>, <<X + 3>>, 2),
                       Instruction("Other", 0, <<X + 3, cid(4)>>, <<>>, 3)>>,
                     <<X + 3>>)>>,
             <<X + 3>>)
      [] shape = "multiblock" ->
           \* the same instructions in two blocks
           Function(rt,
             In \o <<R, InstructionValue(FieldT), InstructionValue(FieldT)>>,
             <<Block(<<Instruction("Other", 0, <<ParamId, cid(2)>>, <<X + 2>>, 1)>>,
                     <<>>),
               Block(<<Instruction("ArrayGet", 0, <<X + 1, ParamId>>, <<X + 3>>, 2)>>,
                     <<X + 3>>)>>,
             <<X + 3>>)
      [] shape = "set" ->
           \* s = array_set R, index v0, value B; g = array_get s, index v0
           Function(rt,
             In \o <<R, FlatSlice(l2, 2), InstructionValue(NestedSlice),
                     InstructionValue(FieldSlice)>>,
             <<Block(<<Instruction("ArraySet", 0, <<X + 1, ParamId, X + 2>>, <<X + 3>>, 1),
                       Instruction("ArrayGet", 0, <<X + 3, ParamId>>, <<X + 4>>, 2)>>,
                     <<X + 4>>)>>,
             <<X + 3>>)
      [] shape = "call1" ->
           \* g = array_get R, index v0; c = call f(v0, R, g)
           Function(rt,
             In \o <<R, InstructionValue(FieldT), InstructionValue(FieldT)>>,
             <<Block(<<Instruction("ArrayGet", 0, <<X + 1, ParamId>>, <<X + 2>>, 1),
                       Instruction("Call", FuncId, <<ParamId, X + 1, X + 2>>, <<X + 3>>, 2)>>,
                     <<X + 3>>)>>,
             <<X + 2>>)
      [] shape = "call2" ->
           \* s = array_set R, index v0, value B; c = call f(R, v0, B); constrain c == 1
           Function(rt,
             In \o <<R, FlatSlice(l2, 2), InstructionValue(NestedSlice),
                     InstructionValue(FieldT)>>,
             <<Block(<<Instruction("ArraySet", 0, <<X + 1, ParamId, X + 2>>, <<X + 3>>, 1),
                       Instruction("Call", FuncId, <<X + 1, ParamId, X + 2>>, <<X + 4>>, 2),
                       Instruction("Other", 0, <<X + 4, cid(1)>>, <<>>, 3)>>,
                     <<X + 4>>)>>,
             <<X + 4>>)
      [] shape = "callflat" ->
           \* g = array_get inner_1, index v0; c = call f(inner_1)
           Function(rt,
             In \o <<InstructionValue(FieldT), InstructionValue(FieldT)>>,
             <<Block(<<Instruction("ArrayGet", 0, <<PRE + 1, ParamId>>, <<X + 1>>, 1),
                       Instruction("Call", FuncId, <<PRE + 1>>, <<X + 2>>, 2)>>,
                     <<X + 2>>)>>,
             <<>>)
      [] shape = "fnrow" ->
           \* a slice of (Field, fn) rows; s = array_set Rf, index v0, value 1
           Function(rt,
             In \o <<ArrayValue(Flatten(n, 2, LAMBDA i : <<cid(i), FuncId>>), FnRowSlice),
                     InstructionValue(FnRowSlice)>>,
             <<Block(<<Instruction("ArraySet", 0, <<X + 1, ParamId, cid(1)>>, <<X + 2>>, 1)>>,
                     <<X + 2>>)>>,
             <<>>)
      [] shape = "fnarr" ->
           \* a slice of [fn; 1] rows; g = array_get Ra, index v0
           Function(rt,
             In \o <<ArrayValue(<<FuncId>>, FnArray1),
                     ArrayValue([i \in 1..n |-> X + 1], FnArraySlice),
                     InstructionValue(FnArray1)>>,
             <<Block(<<Instruction("ArrayGet", 0, <<X + 2, ParamId>>, <<X + 3>>, 1)>>,
                     <<X + 3>>)>>,
             <<>>)
      [] shape = "arrslice" ->
           \* a slice of rows (Field, [inner_i, inner_i+1]), the second element
           \* an array of two slices; g = array_get Rs, index v0;
           \* h = array_get (the array of row 1), index v0
           Function(rt,
             In \o [i \in 1..n |-> ArrayValue(<<PRE + i, PRE + (i % n) + 1>>, SliceArray2)]
                \o <<ArrayValue(Flatten(n, 2, LAMBDA i : <<cid(i), X + i>>), ArraySliceSlice),
                     InstructionValue(FieldT), InstructionValue(FieldSlice)>>,
             <<Block(<<Instruction("ArrayGet", 0, <<X + n + 1, ParamId>>, <<X + n + 2>>, 1),
                       Instruction("ArrayGet", 0, <<X + 1, ParamId>>, <<X + n + 3>>, 2)>>,
                     <<X + n + 2>>)>>,
             <<>>)
      [] shape = "getinner" ->
           \* g = array_get R, index v0, the fetched element an inner slice
           Function(rt,
             In \o <<R, InstructionValue(FieldSlice)>>,
             <<Block(<<Instruction("ArrayGet", 0, <<X + 1, ParamId>>, <<X + 2>>, 1)>>,
                     <<X + 2>>)>>,
             <<X + 2>>)
      [] shape = "idx" ->
           \* v = add v0, 1; g = array_get R, index v;
           \* s = array_set R, index v, value g
           Function(rt,
             In \o <<R, InstructionValue(FieldT), InstructionValue(FieldT),
                     InstructionValue(NestedSlice)>>,
             <<Block(<<Instruction("Other", 0, <<ParamId, cid(1)>>, <<X + 2>>, 1),
                       Instruction("ArrayGet", 0, <<X + 1, X + 2>>, <<X + 3>>, 2),
                       Instruction("ArraySet", 0, <<X + 1, X + 2, X + 3>>, <<X + 4>>, 3)>>,
                     <<X + 4>>)>>,
             <<X + 4>>)
      [] shape = "u8" ->
           \* a slice of rows (u8 1, [u8 1, ..]) with inner slices of l1 or l2
           \* elements; g = array_get R8, index v0
           Function(rt,
             Prefix \o <<NumericConstant(1, U8T)>>
                \o [i \in 1..n |->
                      ArrayValue([j \in 1..RowLen(l1, l2, i) |-> PRE + 1], U8Slice)]
                \o <<ArrayValue(Flatten(n, 2, LAMBDA i : <<PRE + 1, PRE + 1 + i>>),
                                U8NestedSlice),
                     InstructionValue(U8T)>>,
             <<Block(<<Instruction("ArrayGet", 0, <<X + 2, ParamId>>, <<X + 3>>, 1)>>,
                     <<X + 3>>)>>,
             <<X + 3>>)
      [] shape = "mixed" ->
           \* a slice of rows (inner_i, [inner_i]) of type [([Field], [[Field]])];
           \* g = array_get Rm, index v0, the fetched element the first of a row
           Function(rt,
             In \o [i \in 1..n |-> ArrayValue(<<PRE + i>>, SliceOfSlices)]
                \o <<ArrayValue(Flatten(n, 2, LAMBDA i : <<PRE + i, X + i>>), MixedSlice),
                     InstructionValue(FieldSlice)>>,
             <<Block(<<Instruction("ArrayGet", 0, <<X + n + 1, ParamId>>, <<X + n + 2>>, 1)>>,
                     <<X + n + 2>>)>>,
             <<>>)
      [] shape = "intrinsic" ->
           \* g = array_get R, index v0; l, s = call slice_push_back(n, R, 1, B);
           \* m, t = call slice_pop_back(l, s)
           Function(rt,
             In \o <<R, FlatSlice(l2, 2), InstructionValue(FieldT),
                     InstructionValue(FieldT), InstructionValue(NestedSlice),
                     InstructionValue(FieldT), InstructionValue(NestedSlice)>>,
             <<Block(<<Instruction("ArrayGet", 0, <<X + 1, ParamId>>, <<X + 3>>, 1),
                       Instruction("Call", PushBackId, <<cid(n), X + 1, cid(1), X + 2>>,
                                   <<X + 4, X + 5>>, 2),
                       Instruction("Call", PopBackId, <<X + 4, X + 5>>,
                                   <<X + 6, X + 7>>, 3)>>,
                     <<X + 7>>)>>,
             <<X + 7>>)
      [] shape = "deep" ->
           \* [[([Field; 2], [Field])]]: row i of the root is a slice of
           \* RowLen(i) rows ([1, 1], inner_i); g = array_get Rd, index v0
           Function(rt,
             In \o <<ArrayValue(<<cid(1), cid(1)>>, FieldArray2)>>
                \o [i \in 1..n |->
                      ArrayValue(Flatten(RowLen(l1, l2, i), 2,
                                         LAMBDA j : <<X + 1, PRE + i>>), MidSlice)]
                \o <<ArrayValue([i \in 1..n |-> X + 1 + i], DeepSlice),
                     InstructionValue(MidSlice)>>,
             <<Block(<<Instruction("ArrayGet", 0, <<X + n + 2, ParamId>>, <<X + n + 3>>, 1)>>,
                     <<X + n + 3>>)>>,
             <<X + n + 3>>)

(* ---------------------------- maps ------------------------------------- *)
\* HashMap::default(), HashMap::insert, HashMap::get on maps keyed by ValueId
EmptyMap == [x \in {} |-> 0]
Insert(m, key, val) == [x \in (DOMAIN m) \cup {key} |-> IF x = key THEN val ELSE m[x]]
Contains(vec, x) == \E i \in DOMAIN vec : vec[i] = x

RECURSIVE resolve_slice_value(_, _)
\* resolve_slice_value with a slip: one step of the forward map is taken
resolve_slice_value_one_step(mapped_slice_values, array_id) ==
    IF array_id \in DOMAIN mapped_slice_values
    THEN mapped_slice_values[array_id]
    ELSE array_id

\* Context::resolve_slice_value: follow the forward map to a fixed point
resolve_slice_value(mapped_slice_values, array_id) ==
    IF array_id \in DOMAIN mapped_slice_values
    THEN resolve_slice_value(mapped_slice_values, mapped_slice_values[array_id])
    ELSE array_id

RECURSIVE resolve_slice_parent(_, _)
\* Context::resolve_slice_parent: follow the backward map to a fixed point
resolve_slice_parent(slice_parents, array_id) ==
    IF array_id \in DOMAIN slice_parents
    THEN resolve_slice_parent(slice_parents, slice_parents[array_id])
    ELSE array_id

(* ---------------------------- capacity tracker ------------------------- *)
\* SliceCapacityTracker::new: the tracker's maps with the slice sizes map of
\* process_block; ok is FALSE once an internal error (a panic) was raised
NewTracker ==
    [slice_sizes |-> EmptyMap, slice_values |-> <<>>,
     mapped_slice_values |-> EmptyMap, slice_parents |-> EmptyMap, ok |-> TRUE]

SizeEntry(size, children) == [size |-> size, children |-> children]

RECURSIVE compute_slice_sizes(_, _, _)
RECURSIVE SeedChildren(_, _, _, _)
\* the children of a slice constant: every element of Slice type, each seeded
SeedChildren(dfg, array, i, t) ==
    IF i > Len(array) THEN t
    ELSE IF type_of_value(dfg, array[i]).k = "Slice"
         THEN SeedChildren(dfg, array, i + 1, compute_slice_sizes(dfg, array[i], t))
         ELSE SeedChildren(dfg, array, i + 1, t)

\* SliceCapacityTracker::compute_slice_sizes: a slice constant seeds an
\* entry (row count, children) once and joins the tracked values
compute_slice_sizes(dfg, array_id, t) ==
    IF dfg[array_id].k = "Array" /\ dfg[array_id].typ.k = "Slice"
       /\ array_id \notin DOMAIN t.slice_sizes
    THEN LET array == dfg[array_id].array
             len == Len(array) \div Len(dfg[array_id].typ.el)
             kids == SelectSeq(array, LAMBDA v : type_of_value(dfg, v).k = "Slice")
             t1 == SeedChildren(dfg, array, 1, t)
         IN  [t1 EXCEPT !.slice_sizes = Insert(@, array_id, SizeEntry(len, kids)),
                        !.slice_values = IF Contains(@, array_id) THEN @
                                         ELSE Append(@, array_id)]
    ELSE t

\* the first step of ArrayGet and ArraySet: an array constant that holds
\* slices is a tracked value
SeedArrayOperand(dfg, array, t) ==
    IF dfg[array].k = "Array" /\ contains_slice_element(type_of_value(dfg, array))
    THEN compute_slice_sizes(dfg, array, t)
    ELSE t

\* the result of an ArraySet or of a slice intrinsic takes the entry of the
\* slice it was made from and is linked to it in both maps
LinkResult(t, array, result) ==
    IF array \in DOMAIN t.slice_sizes
    THEN [t EXCEPT !.slice_sizes = Insert(@, result, t.slice_sizes[array]),
                   !.mapped_slice_values = Insert(@, array, result),
                   !.slice_parents = Insert(@, result, array)]
    ELSE t

\* ArrayGet: the fetched value, when it holds slices, becomes a child of
\* the array and takes the entry of the array's children
CollectArrayGet(dfg, instruction, t) ==
    LET array == instruction.args[1]
        result == instruction.results[1]
        t1 == SeedArrayOperand(dfg, array, t)
    IN  IF contains_slice_element(type_of_value(dfg, result))
           /\ array \in DOMAIN t1.slice_sizes
        THEN LET kids == t1.slice_sizes[array].children
             IN  IF kids = <<>> \/ kids[Len(kids)] \notin DOMAIN t1.slice_sizes
                 THEN [t1 EXCEPT !.ok = FALSE]
                 ELSE [t1 EXCEPT !.slice_sizes =
                         Insert(Insert(@, array,
                                       SizeEntry(@[array].size, Append(kids, result))),
                                result, @[kids[Len(kids)]])]
        ELSE t1

\* ArraySet: a written value that holds slices becomes a child of the
\* array; the result takes the array's entry
CollectArraySet(dfg, instruction, t) ==
    LET array == instruction.args[1]
        value == instruction.args[3]
        result == instruction.results[1]
        t1 == SeedArrayOperand(dfg, array, t)
        t2 == IF contains_slice_element(type_of_value(dfg, value))
              THEN LET s == compute_slice_sizes(dfg, value, t1)
                   IN  IF array \in DOMAIN s.slice_sizes
                       THEN [s EXCEPT !.slice_sizes[array].children = Append(@, value)]
                       ELSE [s EXCEPT !.ok = FALSE]
              ELSE t1
    IN  LinkResult(t2, array, result)

RECURSIVE SeedArguments(_, _, _, _)
\* the pushed elements of a size increasing intrinsic are seeded
SeedArguments(dfg, arguments, i, t) ==
    IF i > Len(arguments) THEN t
    ELSE IF contains_slice_element(type_of_value(dfg, arguments[i]))
         THEN SeedArguments(dfg, arguments, i + 1,
                            compute_slice_sizes(dfg, arguments[i], t))
         ELSE SeedArguments(dfg, arguments, i + 1, t)

\* PushedSize with a slip: the recorded length is not raised
PushedSizeSame(size) == size

\* the length recorded after a size increasing intrinsic: one more element
PushedSize(size) == size + 1

\* Call of a slice intrinsic (length, contents, ..) -> (length, contents):
\* push_back raises the recorded length, pop_back never lowers it
CollectCall(dfg, instruction, t) ==
    LET func == dfg[instruction.func]
        slice_contents == instruction.args[2]
        result == instruction.results[2]
    IN  IF func.k = "Function" /\ func.n = SlicePushBack
        THEN LET t1 == SeedArguments(dfg, instruction.args, 3, t)
                 t2 == IF slice_contents \in DOMAIN t1.slice_sizes
                       THEN [t1 EXCEPT !.slice_sizes[slice_contents].size = PushedSize(@)]
                       ELSE t1
             IN  LinkResult(t2, slice_contents, result)
        ELSE IF func.k = "Function" /\ func.n = SlicePopBack
        THEN LinkResult(t, slice_contents, result)
        ELSE t

\* SliceCapacityTracker::collect_slice_information
collect_slice_information(dfg, instruction, t) ==
    IF ~t.ok THEN t
    ELSE CASE instruction.op = "ArrayGet" -> CollectArrayGet(dfg, instruction, t)
           [] instruction.op = "ArraySet" -> CollectArraySet(dfg, instruction, t)
           [] instruction.op = "Call" -> CollectCall(dfg, instruction, t)
           [] OTHER -> t

(* ---------------------------- max size resolver ------------------------ *)
\* the per depth accumulator max_sizes; ok is FALSE after a panic (a miss
\* in the slice sizes map or an index beyond the accumulator)
Sizes(ms, ok) == [ms |-> ms, ok |-> ok]

\* LevelStart with a slip: the maximum of a level starts from nothing
LevelStartZero(current_size) == 0

\* let mut max = *current_size: the value the maximum of a level starts from
LevelStart(current_size) == current_size

RECURSIVE compute_slice_max_sizes(_, _, _, _, _)
RECURSIVE MaxOverInner(_, _, _, _, _, _, _)
\* the loop over inner_slices: max is the running maximum of this level
MaxOverInner(mapped, slice_sizes, inner_slices, i, max, acc, depth) ==
    IF ~acc.ok THEN [max |-> max, acc |-> acc]
    ELSE IF i > Len(inner_slices) THEN [max |-> max, acc |-> acc]
    ELSE LET inner_slice == resolve_slice_value(mapped, inner_slices[i])
         IN  IF inner_slice \notin DOMAIN slice_sizes
             THEN [max |-> max, acc |-> Sizes(acc.ms, FALSE)]
             ELSE LET inner_size == slice_sizes[inner_slice].size
                      max1 == IF inner_size > max THEN inner_size ELSE max
                      acc1 == compute_slice_max_sizes(mapped, inner_slice, slice_sizes,
                                                      acc, depth + 1)
                  IN  MaxOverInner(mapped, slice_sizes, inner_slices, i + 1, max1,
                                   acc1, depth)

\* Context::compute_slice_max_sizes; max_sizes[depth] of the code is
\* acc.ms[depth + 1]
compute_slice_max_sizes(mapped, array_id0, slice_sizes, acc, depth) ==
    LET array_id == resolve_slice_value(mapped, array_id0)
    IN  IF ~acc.ok THEN acc
        ELSE IF array_id \notin DOMAIN slice_sizes THEN Sizes(acc.ms, FALSE)
        ELSE IF slice_sizes[array_id].children = <<>> THEN acc
        ELSE LET r == MaxOverInner(mapped, slice_sizes, slice_sizes[array_id].children,
                                   1, LevelStart(slice_sizes[array_id].size), acc, depth)
             IN  IF ~r.acc.ok THEN r.acc
                 ELSE IF depth >= Len(r.acc.ms) THEN Sizes(r.acc.ms, FALSE)
                 ELSE IF r.max > r.acc.ms[depth + 1]
                      THEN Sizes([r.acc.ms EXCEPT ![depth + 1] = r.max], TRUE)
                      ELSE r.acc

Max(S) == CHOOSE x \in S : \A y \in S : y <= x

\* the max_sizes of one key of the slice sizes map (process_block, the body
\* of the loop over slice_sizes)
KeyMaxSizes(dfg, mapped, slice_sizes, slice_value) ==
    LET depth == compute_nested_slice_depth(type_of_value(dfg, slice_value))
    IN  IF depth = 0 THEN Sizes(<<>>, FALSE)
        ELSE compute_slice_max_sizes(mapped, slice_value, slice_sizes,
               Sizes([i \in 1..depth |->
                        IF i = 1 THEN slice_sizes[slice_value].size ELSE 0], TRUE),
               1)

\* process_block, "Compute slice nested max": the largest max_sizes[1..]
\* over all keys; -1 stands for a panic
ComputeNestedMax(dfg, mapped, slice_sizes) ==
    LET keys == DOMAIN slice_sizes
        res == [v \in keys |-> KeyMaxSizes(dfg, mapped, slice_sizes, v)]
    IN  IF \E v \in keys : ~res[v].ok THEN -1
        ELSE Max({0} \cup UNION {{res[v].ms[i] : i \in 2..Len(res[v].ms)} : v \in keys})

(* ---------------------------- function inserter ------------------------ *)
RECURSIVE resolve(_, _)
\* FunctionInserter::resolve: follow the substitution to a fixed point
resolve(values, value) ==
    IF value \in DOMAIN values THEN resolve(values, values[value]) ELSE value

\* FunctionInserter::map_instruction: the instruction with every operand resolved
map_instruction(values, instruction) ==
    [instruction EXCEPT !.func = IF @ = 0 THEN 0 ELSE resolve(values, @),
                        !.args = [i \in DOMAIN @ |-> resolve(values, @[i])]]

\* DataFlowGraph::make_constant: constants are unique per (value, type)
make_constant(dfg, n, typ) ==
    LET c == NumericConstant(n, typ)
    IN  IF \E i \in DOMAIN dfg : dfg[i] = c
        THEN [dfg |-> dfg, id |-> CHOOSE i \in DOMAIN dfg : dfg[i] = c]
        ELSE [dfg |-> Append(dfg, c), id |-> Len(dfg) + 1]

\* DataFlowGraph::make_array: a new value
make_array(dfg, array, typ) ==
    [dfg |-> Append(dfg, ArrayValue(array, typ)), id |-> Len(dfg) + 1]

(* ---------------------------- dummy value synthesizer ------------------ *)
\* The state threaded through attach_slice_dummies: the dfg it adds values
\* to, the inserter's substitution, nested_max (-1 for None), ok (FALSE
\* after a panic), id (the value returned) and log, the calls made with
\* no known value as (type, returned value, nested_max) records.
SynthState(dfg, values, nested_max) ==
    [dfg |-> dfg, values |-> values, nested_max |-> nested_max,
     ok |-> TRUE, id |-> 0, log |-> {}]

\* a known value is Some(id) with id >= 1; None is 0
None == 0

\* ZeroConstant with a slip: the dummy is the constant one
ZeroConstantOne(dfg, typ) == make_constant(dfg, 1, FieldT)

\* let zero = FieldElement::zero(); make_constant(zero, Type::field())
ZeroConstant(dfg, typ) == make_constant(dfg, 0, FieldT)

\* the number of rows of the rewritten slice: nested_max, or for the slice
\* the instruction works on its own row count
SliceRows(is_parent_slice, array, element_types, nested_max) ==
    IF is_parent_slice THEN Len(array) \div Len(element_types) ELSE nested_max

\* ArrayRows with a slip: the loop starts at row 1
ArrayRowsShort(typ) == IF typ.len > 0 THEN typ.len - 1 ELSE 0

\* for _ in 0..*len: the number of rows synthesized for an unknown array
ArrayRows(typ) == typ.len

\* let maybe_value = if valid_index { Some(array[index_usize]) } else { None }
MaybeValue(array, index_usize) ==
    IF index_usize < Len(array) THEN array[index_usize + 1] ELSE None

\* an array value that is known is returned as it is
KnownArray(values, value) == resolve(values, value)

Logged(c, typ, value) ==
    IF value = None /\ c.ok
    THEN [c EXCEPT !.log = @ \cup {[typ |-> typ, id |-> c.id, max |-> c.nested_max]}]
    ELSE c

RECURSIVE attach_slice_dummies(_, _, _, _)
RECURSIVE AttachElements(_, _, _, _, _, _)
\* the two nested loops over rows and element types, as one loop over the
\* flat index index_usize = i * element_types.len() + element_index
AttachElements(c, element_types, array, index_usize, total, acc) ==
    IF ~c.ok THEN [c |-> c, acc |-> acc]
    ELSE IF index_usize >= total THEN [c |-> c, acc |-> acc]
    ELSE LET element_type == element_types[(index_usize % Len(element_types)) + 1]
             c1 == attach_slice_dummies(c, element_type,
                                        MaybeValue(array, index_usize), FALSE)
         IN  AttachElements(c1, element_types, array, index_usize + 1, total,
                            Append(acc, c1.id))

\* Context::attach_slice_dummies
attach_slice_dummies(c, typ, value, is_parent_slice) ==
    IF ~c.ok THEN c
    ELSE Logged(
      CASE typ.k = "Numeric" ->
             IF value # None THEN [c EXCEPT !.id = resolve(c.values, value)]
             ELSE LET m == ZeroConstant(c.dfg, typ)
                  IN  [c EXCEPT !.dfg = m.dfg, !.id = m.id]
        [] typ.k = "Array" ->
             IF value # None THEN [c EXCEPT !.id = KnownArray(c.values, value)]
             ELSE LET r == AttachElements(c, typ.el, <<>>, 0, ArrayRows(typ) * Len(typ.el), <<>>)
                      m == make_array(r.c.dfg, r.acc, typ)
                  IN  IF ~r.c.ok THEN r.c
                      ELSE [r.c EXCEPT !.dfg = m.dfg, !.id = m.id]
        [] typ.k = "Slice" ->
             IF c.nested_max < 0 THEN [c EXCEPT !.ok = FALSE]
             ELSE IF value # None /\ c.dfg[value].k # "Array"
             THEN [c EXCEPT !.ok = FALSE]
             ELSE LET array == IF value # None THEN c.dfg[value].array ELSE <<>>
                      max_size == IF value # None
                                  THEN SliceRows(is_parent_slice, array, typ.el,
                                                 c.nested_max)
                                  ELSE c.nested_max
                      r == AttachElements(c, typ.el, array, 0,
                                          max_size * Len(typ.el), <<>>)
                      m == make_array(r.c.dfg, r.acc, typ)
                  IN  IF ~r.c.ok THEN r.c
                      ELSE [r.c EXCEPT !.dfg = m.dfg, !.id = m.id]
        [] OTHER -> [c EXCEPT !.ok = FALSE],
      typ, value)

(* ---------------------------- instruction rewriter --------------------- *)
\* The state threaded through push_updated_instruction: the dfg, the
\* inserter's substitution, out (the instructions of the block being
\* rebuilt), ok (FALSE after a panic), log (see SynthState) and em, a
\* record per emitted instruction: the original instruction (pre), the
\* substitution in effect (vals), the emitted instruction (new), the
\* position of the replaced operand (0 for none) and the positions found
\* to qualify; the action adds the function, the block, the position of the
\* original, nested_max and the tracked values.
RewriteState(dfg, values, out) ==
    [dfg |-> dfg, values |-> values, out |-> out, ok |-> TRUE, log |-> {}, em |-> <<>>]

\* FunctionInserter::push_instruction_value: the instruction is inserted
\* with new results, and the old results are substituted by the new ones
push_instruction_value(e, instruction, id, note) ==
    LET n == Len(id.results)
        new_results == [i \in 1..n |-> Len(e.dfg) + i]
        olds == {id.results[i] : i \in 1..n}
        pushed == [instruction EXCEPT !.results = new_results, !.cs = id.cs]
    IN  [e EXCEPT
          !.dfg = @ \o [i \in 1..n |-> InstructionValue(type_of_value(e.dfg, id.results[i]))],
          !.values = [x \in (DOMAIN @) \cup olds |->
                        IF x \in olds
                        THEN new_results[CHOOSE i \in 1..n : id.results[i] = x]
                        ELSE @[x]],
          !.out = Append(@, pushed),
          !.em = Append(@, [pre |-> id, vals |-> e.values, new |-> pushed,
                            replaced |-> note.replaced, qual |-> note.qual])]

\* FunctionInserter::push_instruction
push_instruction(e, id, qual) ==
    push_instruction_value(e, map_instruction(e.values, id), id,
                           [replaced |-> 0, qual |-> qual])

\* the synthesizer run from the rewriter's state
Synthesize(e, nested_max, typ, value, is_parent_slice) ==
    attach_slice_dummies(SynthState(e.dfg, e.values, nested_max), typ, value,
                         is_parent_slice)

\* ArrayOpIsParentSlice with a slip: the operand is not the parent slice
ArrayOpIsNestedSlice == FALSE

\* the flag given to attach_slice_dummies for the array of an array operation
ArrayOpIsParentSlice == TRUE

\* Context::get_updated_array_op_instr followed by push_instruction_value
PushUpdatedArrayOp(e, nested_max, id) ==
    LET array_id == id.args[1]
        typ == type_of_value(e.dfg, array_id)
        c == Synthesize(e, nested_max, typ, array_id, ArrayOpIsParentSlice)
        instruction == map_instruction(e.values, id)
        new_array_op_instr == [instruction EXCEPT !.args[1] = c.id]
    IN  IF ~c.ok THEN [e EXCEPT !.ok = FALSE]
        ELSE push_instruction_value([e EXCEPT !.dfg = c.dfg, !.log = @ \cup c.log],
                                    new_array_op_instr, id,
                                    [replaced |-> 1, qual |-> {1}])

\* self.slice_values.contains(arg) && element_typ.contains_slice_element()
QualifyingArg(dfg, slice_values, arg) ==
    Contains(slice_values, arg) /\ contains_slice_element(type_of_value(dfg, arg))

\* ArgsToReplace with a slip: the scan stops at the first qualifying argument
ArgsToReplaceFirst(dfg, slice_values, arguments) ==
    LET all == SelectSeq([i \in DOMAIN arguments |-> i],
                         LAMBDA i : QualifyingArg(dfg, slice_values, arguments[i]))
    IN  IF all = <<>> THEN <<>> ELSE <<all[1]>>

\* args_to_replace: the positions of the qualifying arguments, in order
ArgsToReplace(dfg, slice_values, arguments) ==
    SelectSeq([i \in DOMAIN arguments |-> i],
              LAMBDA i : QualifyingArg(dfg, slice_values, arguments[i]))

\* the flag given to attach_slice_dummies for an argument of a Call
CallIsParentSlice == FALSE

\* ReplaceArgument with a slip: the first argument is overwritten
ReplaceFirstArgument(instruction, index, new_array) ==
    [instruction EXCEPT !.args[1] = new_array]

\* arguments[index] = new_array, on the mapped original instruction
ReplaceArgument(instruction, index, new_array) ==
    [instruction EXCEPT !.args[index] = new_array]

RECURSIVE PushReplacedCalls(_, _, _, _, _)
\* the loop over args_to_replace: one call is pushed per qualifying argument
PushReplacedCalls(e, nested_max, id, args_to_replace, j) ==
    IF ~e.ok \/ j > Len(args_to_replace) THEN e
    ELSE LET index == args_to_replace[j]
             arg == id.args[index]
             element_typ == type_of_value(e.dfg, arg)
             c == Synthesize(e, nested_max, element_typ, arg, CallIsParentSlice)
             instruction == map_instruction(e.values, id)
             new_call_instr == ReplaceArgument(instruction, index, c.id)
         IN  IF ~c.ok THEN [e EXCEPT !.ok = FALSE]
             ELSE PushReplacedCalls(
                    push_instruction_value(
                      [e EXCEPT !.dfg = c.dfg, !.log = @ \cup c.log],
                      new_call_instr, id,
                      [replaced |-> index,
                       qual |-> {args_to_replace[x] : x \in DOMAIN args_to_replace}]),
                    nested_max, id, args_to_replace, j + 1)

\* push_updated_instruction with a slip: an instruction of another kind is
\* not added back to the block
push_updated_instruction_dropping(e, slice_values, nested_max, id) ==
    CASE id.op \in {"ArrayGet", "ArraySet"} ->
           IF Contains(slice_values, id.args[1])
           THEN PushUpdatedArrayOp(e, nested_max, id)
           ELSE push_instruction(e, id, {})
      [] id.op = "Call" ->
           LET args_to_replace == ArgsToReplace(e.dfg, slice_values, id.args)
           IN  IF args_to_replace = <<>>
               THEN push_instruction(e, id, {})
               ELSE PushReplacedCalls(e, nested_max, id, args_to_replace, 1)
      [] OTHER -> e

\* Context::push_updated_instruction
push_updated_instruction(e, slice_values, nested_max, id) ==
    CASE id.op \in {"ArrayGet", "ArraySet"} ->
           IF Contains(slice_values, id.args[1])
           THEN PushUpdatedArrayOp(e, nested_max, id)
           ELSE push_instruction(e, id, {})
      [] id.op = "Call" ->
           LET args_to_replace == ArgsToReplace(e.dfg, slice_values, id.args)
           IN  IF args_to_replace = <<>>
               THEN push_instruction(e, id, {})
               ELSE PushReplacedCalls(e, nested_max, id, args_to_replace, 1)
      [] OTHER -> push_instruction(e, id, {})

(* ---------------------------- the pass --------------------------------- *)
VARIABLES
    ssa,                  \* the program: the functions in the order they are visited
    input,                \* the program the pass was first given
    out1,                 \* the program after the first run (<<>> during it)
    run,                  \* 1: first run of the pass, 2: run on its own output
    pc,                   \* "function", "block", "collect", "rewrite", "done", "panic"
    fn,                   \* the function being visited
    bk,                   \* the position in block_order
    instructions,         \* the instructions taken from the block
    ip,                   \* the next instruction of the current loop
    tracker,              \* the capacity tracker with the slice sizes map
    slice_values,         \* Context::slice_values
    mapped_slice_values,  \* Context::mapped_slice_values
    slice_parents,        \* Context::slice_parents
    nested_max,           \* Context::nested_max, -1 for None
    values,               \* the substitution of the context's FunctionInserter
    databus,              \* the data bus cloned before the function is processed
    emitted,              \* a record per instruction emitted in this run
    dummies               \* the values synthesized with no known value in this run

\* the state of the pass
passvars == <<ssa, input, out1, run, pc, fn, bk, instructions, ip, tracker, slice_values,
              mapped_slice_values, slice_parents, nested_max, values, databus, emitted,
              dummies>>

\* The other components of the repository are run on their own, each in a
\* specification of its own; a component that is not run stays idle.
VARIABLES
    bb_pc,                \* BlackBoxFunc: "start", "named", "resolved", "done"
    bb_func,              \* the variant taken from BlackBoxFunc::iter()
    op_name,              \* the name handed to lookup and to is_valid_black_box_func_name
    resolved_func,        \* the Option<BlackBoxFunc> lookup returned
    is_valid              \* what is_valid_black_box_func_name returned

bbvars == <<bb_pc, bb_func, op_name, resolved_func, is_valid>>

VARIABLES
    source,               \* ForParser: the parts of the text being parsed
    parser,               \* the Parser: its tokens and the position of curr_token
    for_pc,               \* the step of ForParser::parse, "done" or "err" at its end
    spanned_identifier,   \* the loop identifier
    start_range,          \* the expression parsed for RANGE_START
    end_range,            \* the expression parsed for RANGE_END
    parsed                \* what ForParser::parse returned

forvars == <<source, parser, for_pc, spanned_identifier, start_range, end_range, parsed>>

VARIABLES
    nd_pc,                \* compute_nested_slice_depth: "start" or "done"
    nd_typ,               \* the type it is called on
    nd_depth              \* the depth it returned

depthvars == <<nd_pc, nd_typ, nd_depth>>

VARIABLES
    mono_pc,              \* monomorphise: "start", "body", "loop", "done" or "panic"
    interner,             \* the NodeInterner: the type checked functions
    cells,                \* the binding of every type variable
    globals,              \* Monomorphiser::globals
    locals,               \* Monomorphiser::locals
    queue,                \* Monomorphiser::queue
    next_local_id,        \* Monomorphiser::next_local_id
    next_function_id,     \* Monomorphiser::next_function_id
    functions,            \* the Functions being built
    current,              \* the call of Monomorphiser::function in progress
    call_log              \* a record per call expression translated

monovars == <<mono_pc, interner, cells, globals, locals, queue, next_local_id,
              next_function_id, functions, current, call_log>>

VARIABLES
    gadget_pc,            \* EcdsaSecp256k1Gadget::call: "start", "prepared",
                          \* "returned" or "panic"
    call_expr,            \* the arguments of the call expression
    evaluator,            \* the Evaluator: its gates and its witness index
    gadget_inputs,        \* the inputs prepare_inputs returned
    gadget_result,        \* what call returned
    evaluator_before      \* the Evaluator when call was entered

gadgetvars == <<gadget_pc, call_expr, evaluator, gadget_inputs, gadget_result,
                evaluator_before>>

\* the components added after the parser
restvars == <<depthvars, monovars, gadgetvars>>

vars == <<passvars, bbvars, forvars, restvars>>

\* the variables outside each component
outsidePass == <<bbvars, forvars, restvars>>
outsideBB == <<passvars, forvars, restvars>>
outsideFor == <<passvars, bbvars, restvars>>
outsideDepth == <<passvars, bbvars, forvars, monovars, gadgetvars>>
outsideMono == <<passvars, bbvars, forvars, depthvars, gadgetvars>>
outsideGadget == <<passvars, bbvars, forvars, depthvars, monovars>>

\* the black box functions are not being looked up
IdleBB ==
    /\ bb_pc = "idle"
    /\ bb_func = ""
    /\ op_name = ""
    /\ resolved_func = <<>>
    /\ is_valid = FALSE

\* no text is being parsed
IdleFor ==
    /\ source = <<>>
    /\ parser = <<>>
    /\ for_pc = "idle"
    /\ spanned_identifier = ""
    /\ start_range = <<>>
    /\ end_range = <<>>
    /\ parsed = <<>>

\* no type is being measured
IdleDepth ==
    /\ nd_pc = "idle"
    /\ nd_typ = <<>>
    /\ nd_depth = 0

\* nothing is being monomorphised
IdleMono ==
    /\ mono_pc = "idle"
    /\ interner = <<>>
    /\ cells = <<>>
    /\ globals = <<>>
    /\ locals = <<>>
    /\ queue = <<>>
    /\ next_local_id = 0
    /\ next_function_id = 0
    /\ functions = <<>>
    /\ current = <<>>
    /\ call_log = <<>>

\* no gadget is called
IdleGadget ==
    /\ gadget_pc = "idle"
    /\ call_expr = <<>>
    /\ evaluator = <<>>
    /\ gadget_inputs = <<>>
    /\ gadget_result = <<>>
    /\ evaluator_before = <<>>

\* none of the components added after the parser is run
IdleRest == IdleDepth /\ IdleMono /\ IdleGadget

context == <<slice_values, mapped_slice_values, slice_parents, nested_max>>

OtherRuntime(rt) == IF rt = "Acir" THEN "Brillig" ELSE "Acir"

\* the programs the pass is given: one function of any shape, alone or
\* followed by a function of the other runtime
Inputs ==
    {<<InputFunction(shape, rt, n, l1, l2)>>
        \o (IF two THEN <<InputFunction("set", OtherRuntime(rt), 2, l2, l1)>> ELSE <<>>) :
        shape \in Shapes, rt \in {"Acir", "Brillig"}, n \in 1..MaxRows,
        l1 \in 0..MaxLen, l2 \in 0..MaxLen, two \in BOOLEAN}

Init ==
    /\ ssa \in Inputs
    /\ input = ssa
    /\ out1 = <<>>
    /\ run = 1
    /\ pc = "function"
    /\ fn = 1
    /\ bk = 1
    /\ instructions = <<>>
    /\ ip = 1
    /\ tracker = NewTracker
    /\ slice_values = <<>>
    /\ mapped_slice_values = EmptyMap
    /\ slice_parents = EmptyMap
    /\ nested_max = -1
    /\ values = EmptyMap
    /\ databus = <<>>
    /\ emitted = <<>>
    /\ dummies = {}
    /\ IdleBB
    /\ IdleFor
    /\ IdleRest

\* the pass is not being run
IdlePass ==
    /\ ssa = <<>>
    /\ input = <<>>
    /\ out1 = <<>>
    /\ run = 0
    /\ pc = "idle"
    /\ fn = 0
    /\ bk = 0
    /\ instructions = <<>>
    /\ ip = 0
    /\ tracker = NewTracker
    /\ slice_values = <<>>
    /\ mapped_slice_values = EmptyMap
    /\ slice_parents = EmptyMap
    /\ nested_max = -1
    /\ values = EmptyMap
    /\ databus = <<>>
    /\ emitted = <<>>
    /\ dummies = {}

\* ProcessesFunction with a slip: the runtime is not looked at
ProcessesAnyFunction(function) == TRUE

\* if function.runtime() == RuntimeType::Acir
ProcessesFunction(function) == function.runtime = "Acir"

\* PostOrder::with_function(..).into_vec() reversed: the blocks of the
\* function, the entry block first
BlockOrder(function) == [i \in 1..Len(function.blocks) |-> i]

\* Ssa::fill_internal_slices, an ACIR function: the data bus is cloned and a
\* Context is made (Context::new)
EnterFunction ==
    /\ pc = "function"
    /\ fn <= Len(ssa)
    /\ ProcessesFunction(ssa[fn])
    /\ databus' = ssa[fn].data_bus
    /\ slice_values' = <<>>
    /\ mapped_slice_values' = EmptyMap
    /\ slice_parents' = EmptyMap
    /\ nested_max' = -1
    /\ values' = EmptyMap
    /\ bk' = 1
    /\ pc' = "block"
    /\ UNCHANGED <<ssa, input, out1, run, fn, instructions, ip, tracker, emitted, dummies>>
    /\ UNCHANGED outsidePass

\* Ssa::fill_internal_slices, a Brillig function: nothing is done
SkipFunction ==
    /\ pc = "function"
    /\ fn <= Len(ssa)
    /\ ~ProcessesFunction(ssa[fn])
    /\ fn' = fn + 1
    /\ UNCHANGED <<ssa, input, out1, run, pc, bk, instructions, ip, tracker, context,
                   values, databus, emitted, dummies>>
    /\ UNCHANGED outsidePass

\* Context::process_blocks, one turn of the loop; process_block up to the
\* collection scan: the instructions are taken out of the block
TakeInstructions ==
    /\ pc = "block"
    /\ bk <= Len(BlockOrder(ssa[fn]))
    /\ LET block == BlockOrder(ssa[fn])[bk]
       IN  /\ instructions' = ssa[fn].blocks[block].instructions
           /\ ssa' = [ssa EXCEPT ![fn].blocks[block].instructions = <<>>]
    /\ tracker' = NewTracker
    /\ ip' = 1
    /\ pc' = "collect"
    /\ UNCHANGED <<input, out1, run, fn, bk, context, values, databus, emitted, dummies>>
    /\ UNCHANGED outsidePass

\* process_block, the collection scan: one instruction
Collect ==
    /\ pc = "collect"
    /\ ip <= Len(instructions)
    /\ LET t == collect_slice_information(ssa[fn].dfg, instructions[ip], tracker)
       IN  /\ tracker' = t
           /\ pc' = IF t.ok THEN "collect" ELSE "panic"
    /\ ip' = ip + 1
    /\ UNCHANGED <<ssa, input, out1, run, fn, bk, instructions, context, values, databus,
                   emitted, dummies>>
    /\ UNCHANGED outsidePass

\* process_block after the scan: the tracker's maps are taken over and
\* nested_max is computed
FinishCollect ==
    /\ pc = "collect"
    /\ ip > Len(instructions)
    /\ slice_values' = tracker.slice_values
    /\ mapped_slice_values' = tracker.mapped_slice_values
    /\ slice_parents' = tracker.slice_parents
    /\ LET m == ComputeNestedMax(ssa[fn].dfg, tracker.mapped_slice_values,
                                 tracker.slice_sizes)
       IN  /\ nested_max' = m
           /\ pc' = IF m < 0 THEN "panic" ELSE "rewrite"
    /\ ip' = 1
    /\ UNCHANGED <<ssa, input, out1, run, fn, bk, instructions, tracker, values, databus,
                   emitted, dummies>>
    /\ UNCHANGED outsidePass

\* process_block, the rewrite scan: one instruction
PushUpdatedInstruction ==
    /\ pc = "rewrite"
    /\ ip <= Len(instructions)
    /\ LET block == BlockOrder(ssa[fn])[bk]
           e == push_updated_instruction(
                  RewriteState(ssa[fn].dfg, values, ssa[fn].blocks[block].instructions),
                  slice_values, nested_max, instructions[ip])
       IN  IF e.ok
           THEN /\ ssa' = [ssa EXCEPT ![fn].dfg = e.dfg,
                                      ![fn].blocks[block].instructions = e.out]
                /\ values' = e.values
                /\ emitted' = emitted \o
                     [i \in DOMAIN e.em |->
                        [fn |-> fn, bk |-> bk, ip |-> ip, max |-> nested_max,
                         tracked |-> slice_values,
                         pre |-> e.em[i].pre, vals |-> e.em[i].vals, new |-> e.em[i].new,
                         replaced |-> e.em[i].replaced, qual |-> e.em[i].qual]]
                /\ dummies' = dummies \cup
                     {[fn |-> fn, typ |-> d.typ, id |-> d.id, max |-> d.max] : d \in e.log}
                /\ pc' = "rewrite"
           ELSE /\ pc' = "panic"
                /\ UNCHANGED <<ssa, values, emitted, dummies>>
    /\ ip' = ip + 1
    /\ UNCHANGED <<input, out1, run, fn, bk, instructions, tracker, context, databus>>
    /\ UNCHANGED outsidePass

\* FunctionInserter::map_terminator_in_place, the end of process_block
MapTerminator ==
    /\ pc = "rewrite"
    /\ ip > Len(instructions)
    /\ LET block == BlockOrder(ssa[fn])[bk]
       IN  ssa' = [ssa EXCEPT ![fn].blocks[block].terminator =
                                 [i \in DOMAIN @ |-> resolve(values, @[i])]]
    /\ bk' = bk + 1
    /\ pc' = "block"
    /\ UNCHANGED <<input, out1, run, fn, instructions, ip, tracker, context, values,
                   databus, emitted, dummies>>
    /\ UNCHANGED outsidePass

\* UpdateDataBus with a slip: the clone of the data bus is put back as it is
UpdateDataBusUnmapped ==
    /\ pc = "block"
    /\ bk > Len(BlockOrder(ssa[fn]))
    /\ ssa' = [ssa EXCEPT ![fn].data_bus = databus]
    /\ fn' = fn + 1
    /\ pc' = "function"
    /\ UNCHANGED <<input, out1, run, bk, instructions, ip, tracker, context, values,
                   databus, emitted, dummies>>
    /\ UNCHANGED outsidePass

\* Ssa::fill_internal_slices after process_blocks: the data bus is remapped
UpdateDataBus ==
    /\ pc = "block"
    /\ bk > Len(BlockOrder(ssa[fn]))
    /\ ssa' = [ssa EXCEPT ![fn].data_bus = [i \in DOMAIN databus |-> resolve(values, databus[i])]]
    /\ fn' = fn + 1
    /\ pc' = "function"
    /\ UNCHANGED <<input, out1, run, bk, instructions, ip, tracker, context, values,
                   databus, emitted, dummies>>
    /\ UNCHANGED outsidePass

\* Ssa::fill_internal_slices returns the program
Return ==
    /\ pc = "function"
    /\ fn > Len(ssa)
    /\ pc' = "done"
    /\ UNCHANGED <<ssa, input, out1, run, fn, bk, instructions, ip, tracker, context,
                   values, databus, emitted, dummies>>
    /\ UNCHANGED outsidePass

\* the pass is run again on the program it returned
RunAgain ==
    /\ pc = "done"
    /\ run = 1
    /\ out1' = ssa
    /\ run' = 2
    /\ fn' = 1
    /\ pc' = "function"
    /\ emitted' = <<>>
    /\ dummies' = {}
    /\ UNCHANGED <<ssa, input, bk, instructions, ip, tracker, context, values, databus>>
    /\ UNCHANGED outsidePass

Next ==
    \/ EnterFunction
    \/ SkipFunction
    \/ TakeInstructions
    \/ Collect
    \/ FinishCollect
    \/ PushUpdatedInstruction
    \/ MapTerminator
    \/ UpdateDataBus
    \/ Return
    \/ RunAgain

Spec == Init /\ [][Next]_vars

(* ---------------------------- black box functions ---------------------- *)
\* acir::circuit::black_box_functions: enum BlackBoxFunc, in declaration
\* order (the order of BlackBoxFunc::iter())
BlackBoxFunc ==
    <<"AES128Encrypt", "AND", "XOR", "RANGE", "SHA256", "Blake2s", "Blake3",
      "SchnorrVerify", "PedersenCommitment", "PedersenHash", "EcdsaSecp256k1",
      "EcdsaSecp256r1", "MultiScalarMul", "Keccak256", "Keccakf1600",
      "RecursiveAggregation", "EmbeddedCurveAdd", "BigIntAdd", "BigIntSub",
      "BigIntMul", "BigIntDiv", "BigIntFromLeBytes", "BigIntToLeBytes",
      "Poseidon2Permutation", "Sha256Compression">>

\* Option<BlackBoxFunc>
SomeFunc(f) == <<f>>
NoFunc == <<>>

\* the arms of the match of BlackBoxFunc::name, in source order
NameArms ==
    <<<<"AES128Encrypt", "aes128_encrypt">>,
      <<"SHA256", "sha256">>,
      <<"SchnorrVerify", "schnorr_verify">>,
      <<"Blake2s", "blake2s">>,
      <<"Blake3", "blake3">>,
      <<"PedersenCommitment", "pedersen_commitment">>,
      <<"PedersenHash", "pedersen_hash">>,
      <<"EcdsaSecp256k1", "ecdsa_secp256k1">>,
      <<"MultiScalarMul", "multi_scalar_mul">>,
      <<"EmbeddedCurveAdd", "embedded_curve_add">>,
      <<"AND", "and">>,
      <<"XOR", "xor">>,
      <<"RANGE", "range">>,
      <<"Keccak256", "keccak256">>,
      <<"Keccakf1600", "keccakf1600">>,
      <<"RecursiveAggregation", "recursive_aggregation">>,
      <<"EcdsaSecp256r1", "ecdsa_secp256r1">>,
      <<"BigIntAdd", "bigint_add">>,
      <<"BigIntSub", "bigint_sub">>,
      <<"BigIntMul", "bigint_mul">>,
      <<"BigIntDiv", "bigint_div">>,
      <<"BigIntFromLeBytes", "bigint_from_le_bytes">>,
      <<"BigIntToLeBytes", "bigint_to_le_bytes">>,
      <<"Poseidon2Permutation", "poseidon2_permutation">>,
      <<"Sha256Compression", "sha256_compression">>>>

\* the arms of the match of BlackBoxFunc::lookup before the wildcard arm,
\* in source order
LookupArms ==
    <<<<"aes128_encrypt", "AES128Encrypt">>,
      <<"sha256", "SHA256">>,
      <<"schnorr_verify", "SchnorrVerify">>,
      <<"blake2s", "Blake2s">>,
      <<"blake3", "Blake3">>,
      <<"pedersen_commitment", "PedersenCommitment">>,
      <<"pedersen_hash", "PedersenHash">>,
      <<"ecdsa_secp256k1", "EcdsaSecp256k1">>,
      <<"ecdsa_secp256r1", "EcdsaSecp256r1">>,
      <<"multi_scalar_mul", "MultiScalarMul">>,
      <<"embedded_curve_add", "EmbeddedCurveAdd">>,
      <<"and", "AND">>,
      <<"xor", "XOR">>,
      <<"range", "RANGE">>,
      <<"keccak256", "Keccak256">>,
      <<"keccakf1600", "Keccakf1600">>,
      <<"recursive_aggregation", "RecursiveAggregation">>,
      <<"bigint_add", "BigIntAdd">>,
      <<"bigint_sub", "BigIntSub">>,
      <<"bigint_mul", "BigIntMul">>,
      <<"bigint_div", "BigIntDiv">>,
      <<"bigint_from_le_bytes", "BigIntFromLeBytes">>,
      <<"bigint_to_le_bytes", "BigIntToLeBytes">>,
      <<"poseidon2_permutation", "Poseidon2Permutation">>,
      <<"sha256_compression", "Sha256Compression">>>>

\* a match: the first arm whose pattern is x, 0 when no arm matches
FirstArm(arms, x) ==
    IF \E i \in DOMAIN arms : arms[i][1] = x
    THEN CHOOSE i \in DOMAIN arms :
            arms[i][1] = x /\ \A j \in 1..(i - 1) : arms[j][1] # x
    ELSE 0

\* BlackBoxFunc::name
name(f) == NameArms[FirstArm(NameArms, f)][2]

\* lookup with a slip: the r1 curve resolves to the k1 variant
lookupK1(name_of_op) ==
    IF name_of_op = "ecdsa_secp256r1" THEN SomeFunc("EcdsaSecp256k1")
    ELSE IF FirstArm(LookupArms, name_of_op) = 0 THEN NoFunc
    ELSE SomeFunc(LookupArms[FirstArm(LookupArms, name_of_op)][2])

\* BlackBoxFunc::lookup
lookup(name_of_op) ==
    IF FirstArm(LookupArms, name_of_op) = 0 THEN NoFunc
    ELSE SomeFunc(LookupArms[FirstArm(LookupArms, name_of_op)][2])

\* BlackBoxFunc::is_valid_black_box_func_name
is_valid_black_box_func_name(name_of_op) == lookup(name_of_op) # NoFunc

\* names that are looked up besides the names of the variants
OtherNames == {"", "sha512", "AND", "ecdsa", "keccak", "bigint_add "}

\* the loop of tests::consistent_function_names starts on one variant
InitBB ==
    /\ bb_pc = "start"
    /\ bb_func \in {BlackBoxFunc[i] : i \in DOMAIN BlackBoxFunc}
    /\ op_name = ""
    /\ resolved_func = NoFunc
    /\ is_valid = FALSE
    /\ IdlePass
    /\ IdleFor
    /\ IdleRest

\* bb_func.name()
Name ==
    /\ bb_pc = "start"
    /\ op_name' = name(bb_func)
    /\ bb_pc' = "named"
    /\ UNCHANGED <<bb_func, resolved_func, is_valid>>
    /\ UNCHANGED outsideBB

\* BlackBoxFunc::lookup(bb_func.name())
Lookup ==
    /\ bb_pc = "named"
    /\ resolved_func' = lookup(op_name)
    /\ bb_pc' = "resolved"
    /\ UNCHANGED <<bb_func, op_name, is_valid>>
    /\ UNCHANGED outsideBB

\* BlackBoxFunc::is_valid_black_box_func_name on the name of a variant or
\* on another string
IsValidName ==
    /\ bb_pc = "resolved"
    /\ \E other \in OtherNames \cup {name(BlackBoxFunc[i]) : i \in DOMAIN BlackBoxFunc} :
          /\ op_name' = other
          /\ is_valid' = is_valid_black_box_func_name(other)
    /\ bb_pc' = "done"
    /\ UNCHANGED <<bb_func, resolved_func>>
    /\ UNCHANGED outsideBB

NextBB ==
    \/ Name
    \/ Lookup
    \/ IsValidName

SpecBB == InitBB /\ [][NextBB]_vars

(* ---------------------------- the for loop parser ---------------------- *)
\* Tokens are written as in the source text: the keywords "for" and "in",
\* identifiers, integer literals and punctuation; "EOF" ends the input.
Idents == {"i", "x", "y", "z"}
Ints == {"0", "1", "100"}
EOF == "EOF"

\* Token::kind
kind(tok) ==
    IF tok \in Idents THEN "Ident"
    ELSE IF tok \in Ints THEN "Literal"
    ELSE IF tok \in {"for", "in"} THEN "Keyword"
    ELSE "Token"

\* enum Precedence, in declaration order
Lowest == 1
LessGreater == 2
Sum == 3
Product == 4
Highest == 5

\* Precedence::token_precedence; 0 is None
token_precedence(tok) ==
    CASE tok = "=" -> Lowest
      [] tok = "<" -> LessGreater
      [] tok = "+" -> Sum
      [] tok = "*" -> Product
      [] OTHER -> 0

\* struct Parser: the tokens of the lexer and the position of curr_token;
\* peek_token is the token after it
NewParser(toks) == [tokens |-> toks, cursor |-> 1]
TokenAt(toks, i) == IF i \in 1..Len(toks) THEN toks[i] ELSE EOF
curr_token(p) == TokenAt(p.tokens, p.cursor)
peek_token(p) == TokenAt(p.tokens, p.cursor + 1)

\* Parser::advance_tokens
advance_tokens(p) == [p EXCEPT !.cursor = @ + 1]

\* a Result: Ok with the parser after the call and a value, or Err
Ok(p, value) == [ok |-> TRUE, p |-> p, value |-> value]
Err(p) == [ok |-> FALSE, p |-> p, value |-> <<>>]

\* Parser::peek_check_kind_advance: the next token has the kind, and the
\* parser moves onto it, or an error is returned
peek_check_kind_advance(p, k) ==
    IF kind(peek_token(p)) = k THEN Ok(advance_tokens(p), <<>>) ELSE Err(p)

\* Parser::peek_check_variant_advance: the next token is the given token,
\* and the parser moves onto it, or an error is returned
peek_check_variant_advance(p, tok) ==
    IF peek_token(p) = tok THEN Ok(advance_tokens(p), <<>>) ELSE Err(p)

RECURSIVE parse_expression(_, _)
RECURSIVE ParseInfix(_, _, _)
\* the loop of parse_expression over the infix operators that bind tighter
\* than precedence; an expression is <<token>> or <<left, operator, right>>
ParseInfix(p, left, precedence) ==
    IF token_precedence(peek_token(p)) > precedence
    THEN LET operator == peek_token(p)
             right == parse_expression(advance_tokens(advance_tokens(p)),
                                       token_precedence(operator))
         IN  IF ~right.ok THEN right
             ELSE ParseInfix(right.p, <<left, operator, right.value>>, precedence)
    ELSE Ok(p, left)

\* Parser::parse_expression: entered on the first token of the expression,
\* it returns on the last one
parse_expression(p, precedence) ==
    IF kind(curr_token(p)) \in {"Ident", "Literal"}
    THEN ParseInfix(p, <<curr_token(p)>>, precedence)
    ELSE Err(p)

RECURSIVE ParseStatements(_, _)
\* the statements of a block, each an expression and a semicolon; entered
\* on the token before a statement, it returns on the closing brace
ParseStatements(p, stmts) ==
    IF peek_token(p) = "}" THEN Ok(advance_tokens(p), stmts)
    ELSE LET e == parse_expression(advance_tokens(p), Lowest)
         IN  IF ~e.ok THEN e
             ELSE LET semi == peek_check_variant_advance(e.p, ";")
                  IN  IF ~semi.ok THEN semi
                      ELSE ParseStatements(semi.p, Append(stmts, e.value))

\* BlockParser::parse_block_expression: cursor start `{`, cursor end `}`
parse_block_expression(p) == ParseStatements(p, <<>>)

\* the kind the token after `for` must have
LoopVariableKind == "Ident"

\* RangeSeparator with a slip: a single dot separates the range
RangeSeparatorDot == "."

\* Token::DoubleDot, the token between RANGE_START and RANGE_END
RangeSeparator == ".."

\* RangePrecedence with a slip: only a product is taken as a range bound
RangePrecedenceProduct == Product

\* Precedence::Lowest, the precedence RANGE_START and RANGE_END are parsed at
RangePrecedence == Lowest

(* the inputs of ForParser::parse *)
MaxStmts == 2      \* largest number of statements of a loop body

\* the statements a body is made of
Statements == {<<"x", ";">>, <<"y", "+", "1", ";">>}

RECURSIVE Bodies(_)
\* the bodies of at most n statements
Bodies(n) ==
    IF n = 0 THEN {<<>>}
    ELSE Bodies(n - 1) \cup {b \o st : b \in Bodies(n - 1), st \in Statements}

\* the parts a source text is put together from
Sources ==
    [first : {"i", "1", "in"},
     start : {<<"x", "+", "y">>, <<"0">>, <<"x", "<", "y", "*", "1">>},
     sep : {<<"..">>, <<"..", ".">>, <<"..", "=">>, <<".">>, <<>>, <<"..", "..">>},
     end : {<<"z">>, <<"100">>, <<"z", "+", "1">>},
     body : Bodies(MaxStmts),
     close : BOOLEAN,
     rest : {<<>>, <<"}">>, <<"x">>}]

\* test_parse(src): the tokens of the text
Tokens(s) ==
    <<"for", s.first, "in">> \o s.start \o s.sep \o s.end \o <<"{">> \o s.body
        \o (IF s.close THEN <<"}">> ELSE <<>>) \o s.rest

\* ExpressionKind::For(Box::new(for_expr)), an error, and nothing yet
ForExpression(identifier, start, end, block) ==
    [kind |-> "For", identifier |-> identifier, start_range |-> start,
     end_range |-> end, block |-> block]
ParserError == [kind |-> "Err", identifier |-> "", start_range |-> <<>>,
                end_range |-> <<>>, block |-> <<>>]
NotParsed == [kind |-> "", identifier |-> "", start_range |-> <<>>,
              end_range |-> <<>>, block |-> <<>>]

\* let mut parser = test_parse(src): the cursor is on `for`
InitFor ==
    /\ source \in Sources
    /\ parser = NewParser(Tokens(source))
    /\ for_pc = "ident"
    /\ spanned_identifier = ""
    /\ start_range = <<>>
    /\ end_range = <<>>
    /\ parsed = NotParsed
    /\ IdlePass
    /\ IdleBB
    /\ IdleRest

\* a step of ForParser::parse that ends in `?`: go on to next with the
\* parser after the call, or return the error
Question(r, next) ==
    IF r.ok
    THEN /\ parser' = r.p
         /\ for_pc' = next
         /\ parsed' = parsed
    ELSE /\ parser' = r.p
         /\ for_pc' = "err"
         /\ parsed' = ParserError

\* parser.peek_check_kind_advance(TokenKind::Ident)?; the current token is
\* the loop identifier
ForIdent ==
    /\ for_pc = "ident"
    /\ LET r == peek_check_kind_advance(parser, LoopVariableKind)
       IN  /\ Question(r, "in")
           /\ spanned_identifier' = IF r.ok THEN curr_token(r.p) ELSE spanned_identifier
    /\ UNCHANGED <<source, start_range, end_range>>
    /\ UNCHANGED outsideFor

\* parser.peek_check_variant_advance(&Token::Keyword(Keyword::In))?
ForIn ==
    /\ for_pc = "in"
    /\ Question(peek_check_variant_advance(parser, "in"), "start")
    /\ UNCHANGED <<source, spanned_identifier, start_range, end_range>>
    /\ UNCHANGED outsideFor

\* parser.advance_tokens(); parser.parse_expression(Precedence::Lowest)?
ForStartRange ==
    /\ for_pc = "start"
    /\ LET r == parse_expression(advance_tokens(parser), RangePrecedence)
       IN  /\ Question(r, "dotdot")
           /\ start_range' = r.value
    /\ UNCHANGED <<source, spanned_identifier, end_range>>
    /\ UNCHANGED outsideFor

\* parser.peek_check_variant_advance(&Token::DoubleDot)?
ForDoubleDot ==
    /\ for_pc = "dotdot"
    /\ Question(peek_check_variant_advance(parser, RangeSeparator), "end")
    /\ UNCHANGED <<source, spanned_identifier, start_range, end_range>>
    /\ UNCHANGED outsideFor

\* parser.advance_tokens(); parser.parse_expression(Precedence::Lowest)?
ForEndRange ==
    /\ for_pc = "end"
    /\ LET r == parse_expression(advance_tokens(parser), RangePrecedence)
       IN  /\ Question(r, "brace")
           /\ end_range' = r.value
    /\ UNCHANGED <<source, spanned_identifier, start_range>>
    /\ UNCHANGED outsideFor

\* parser.peek_check_variant_advance(&Token::LeftBrace)?
ForLeftBrace ==
    /\ for_pc = "brace"
    /\ Question(peek_check_variant_advance(parser, "{"), "block")
    /\ UNCHANGED <<source, spanned_identifier, start_range, end_range>>
    /\ UNCHANGED outsideFor

\* BlockParser::parse_block_expression(parser)? and the For expression
ForBlock ==
    /\ for_pc = "block"
    /\ LET r == parse_block_expression(parser)
       IN  /\ parser' = r.p
           /\ for_pc' = IF r.ok THEN "done" ELSE "err"
           /\ parsed' = IF r.ok
                        THEN ForExpression(spanned_identifier, start_range, end_range,
                                           r.value)
                        ELSE ParserError
    /\ UNCHANGED <<source, spanned_identifier, start_range, end_range>>
    /\ UNCHANGED outsideFor

NextFor ==
    \/ ForIdent
    \/ ForIn
    \/ ForStartRange
    \/ ForDoubleDot
    \/ ForEndRange
    \/ ForLeftBrace
    \/ ForBlock

SpecFor == InitFor /\ [][NextFor]_vars

(* ---------------------------- the nesting depth of a type -------------- *)
MaxNest == 3       \* the number of type constructors applied over a base type

\* the types the depth is computed of: a numeric type or a function type
\* under at most MaxNest slices, arrays and references, with one or two
\* element types
BaseTypes == {FieldT, FunctionT}
SecondTypes == {FieldT, FieldSlice}

RECURSIVE TypesUpTo(_)
TypesUpTo(d) ==
    IF d = 0 THEN BaseTypes
    ELSE LET S == TypesUpTo(d - 1)
         IN  S \cup {SliceT(<<t>>) : t \in S}
               \cup {ReferenceT(t) : t \in S}
               \cup {ArrayT(<<t>>, 2) : t \in S}
               \cup {SliceT(<<t, u>>) : t \in S, u \in SecondTypes}
               \cup {ArrayT(<<t, u>>, 1) : t \in S, u \in SecondTypes}

\* the function is called on a type
InitDepth ==
    /\ nd_pc = "start"
    /\ nd_typ \in TypesUpTo(MaxNest)
    /\ nd_depth = 0
    /\ IdlePass
    /\ IdleBB
    /\ IdleFor
    /\ IdleMono
    /\ IdleGadget

\* Self::compute_nested_slice_depth(&typ)
ComputeNestedSliceDepth ==
    /\ nd_pc = "start"
    /\ nd_depth' = compute_nested_slice_depth(nd_typ)
    /\ nd_pc' = "done"
    /\ UNCHANGED nd_typ
    /\ UNCHANGED outsideDepth

NextDepth == ComputeNestedSliceDepth

SpecDepth == InitDepth /\ [][NextDepth]_vars

(* ---------------------------- monomorphisation ------------------------- *)
MaxCalls == 2      \* the largest number of call expressions in the body of main

\* HirType: FieldElement, Bool, Unit or a type variable.  T is the generic
\* of the function twice, U the generic of the function id.
TypeVars == {"T", "U"}
Unbound == "Unbound"

\* the functions of the source program (node_interner::FuncId)
MainId == "main"

\* a call expression of a function body: the function called, the
\* instantiation bindings the type checker recorded for the expression (the
\* type given to each generic of the callee, which may be a generic of the
\* caller) and the arguments, each a literal or an identifier
HirCall(func_id, bindings, arguments) ==
    [func_id |-> func_id, bindings |-> bindings, arguments |-> arguments]

\* a binding of the one generic of a function
Bind(var, typ) == [v \in {var} |-> typ]
NoBindings == [v \in {} |-> ""]

\* FuncMeta and the body of a function: its parameters (identifier
\* patterns), its return type and the call expressions of its body in the
\* order they are translated
HirFunction(parameters, return_type, body) ==
    [parameters |-> parameters, return_type |-> return_type, body |-> body]

Param(id, typ) == [id |-> id, typ |-> typ]

RECURSIVE SeqsUpTo(_, _)
\* the sequences of at most n elements of S
SeqsUpTo(S, n) ==
    IF n = 0 THEN {<<>>}
    ELSE LET R == SeqsUpTo(S, n - 1)
         IN  R \cup {Append(q, x) : q \in R, x \in S}

\* the calls main can make: twice and id at a concrete type
MainCalls ==
    {HirCall(f, Bind(IF f = "twice" THEN "T" ELSE "U", t), <<"literal">>) :
        f \in {"twice", "id"}, t \in {"FieldElement", "Bool"}}

\* the bodies of twice<T>(x: T) -> T: no call, a call of id with its own
\* generic or at Field, a call of itself with its own generic or at Bool
TwiceBodies ==
    {<<>>,
     <<HirCall("id", Bind("U", "T"), <<"twice.x">>)>>,
     <<HirCall("id", Bind("U", "FieldElement"), <<"literal">>)>>,
     <<HirCall("twice", Bind("T", "T"), <<"twice.x">>)>>,
     <<HirCall("twice", Bind("T", "Bool"), <<"literal">>)>>}

\* the programs handed to monomorphise: main with or without a parameter,
\* returning Unit or Field, and the generic functions twice and id
Programs ==
    {[f \in {"main", "twice", "id"} |->
        CASE f = "main" -> HirFunction(params, ret, body)
          [] f = "twice" -> HirFunction(<<Param("twice.x", "T")>>, "T", tb)
          [] OTHER -> HirFunction(<<Param("id.x", "U")>>, "U", <<>>)] :
     params \in {<<>>, <<Param("main.x", "FieldElement")>>},
     ret \in {"Unit", "FieldElement"},
     body \in SeqsUpTo(MainCalls, MaxCalls),
     tb \in TwiceBodies}

RECURSIVE follow_bindings(_, _)
\* Type::follow_bindings: a bound type variable is replaced by its binding
follow_bindings(cs, typ) ==
    IF typ \in TypeVars /\ cs[typ] # Unbound
    THEN follow_bindings(cs, cs[typ])
    ELSE typ

\* Monomorphiser::convert_type: the ast::Type of a type, or "unreachable"
\* for a type variable that is not bound
convert_type(cs, typ) ==
    LET t == follow_bindings(cs, typ)
    IN  CASE t = "FieldElement" -> "Field"
          [] t = "Bool" -> "Bool"
          [] t = "Unit" -> "Unit"
          [] OTHER -> "unreachable"

\* self.interner.function_type(expr_id).follow_bindings(): the type of the
\* function at the call, its generics taken from the instantiation
\* bindings of the expression and every bound variable followed
function_type(cs, program, call) ==
    LET meta == program[call.func_id]
        Inst(t) == IF t \in DOMAIN call.bindings
                   THEN follow_bindings(cs, call.bindings[t])
                   ELSE follow_bindings(cs, t)
    IN  [args |-> [i \in DOMAIN meta.parameters |-> Inst(meta.parameters[i].typ)],
         ret |-> Inst(meta.return_type)]

\* perform_instantiation_bindings: every variable is bound to its binding
perform_instantiation_bindings(cs, bindings) ==
    [v \in TypeVars |-> IF v \in DOMAIN bindings THEN bindings[v] ELSE cs[v]]

\* undo_instantiation_bindings: every variable is unbound again
undo_instantiation_bindings(cs, bindings) ==
    [v \in TypeVars |-> IF v \in DOMAIN bindings THEN Unbound ELSE cs[v]]

\* Monomorphiser::define_global
define_global(gl, id, typ, new_id) ==
    [k \in (DOMAIN gl) \cup {<<id, typ>>} |-> IF k = <<id, typ>> THEN new_id ELSE gl[k]]

\* lookup_global with a slip: nothing is ever found
lookup_global_missing(gl, id, typ) == <<>>

\* Monomorphiser::lookup_global
lookup_global(gl, id, typ) ==
    IF <<id, typ>> \in DOMAIN gl THEN <<gl[<<id, typ>>]>> ELSE <<>>

\* self.queue.push_back with a slip: the entry is put at the front
push_front(q, entry) == <<entry>> \o q

\* self.queue.push_back
push_back(q, entry) == Append(q, entry)

\* the first id given to a queued function (Monomorphiser::new)
FirstFunctionId == 1

\* the id of the monomorphised main (compile_main)
MainFuncId == 0

\* the call of Monomorphiser::function up to the body: the return type and
\* the parameters are converted and every parameter is given a new local
\* definition.  ok is FALSE when a type cannot be converted.
BeginFunction(cs, lc, next_id, program, f, id) ==
    LET meta == program[f]
        n == Len(meta.parameters)
        return_type == convert_type(cs, meta.return_type)
        parameters == [i \in 1..n |->
                         [id |-> next_id + i - 1,
                          typ |-> convert_type(cs, meta.parameters[i].typ),
                          name |-> meta.parameters[i].id]]
    IN  [f |-> f, id |-> id, name |-> f, parameters |-> parameters,
         return_type |-> return_type, body |-> <<>>, expr |-> 1,
         locals |-> [d \in (DOMAIN lc) \cup {meta.parameters[i].id : i \in 1..n} |->
                       IF \E i \in 1..n : meta.parameters[i].id = d
                       THEN next_id + (CHOOSE i \in 1..n : meta.parameters[i].id = d) - 1
                       ELSE lc[d]],
         next_local_id |-> next_id + n,
         ok |-> /\ return_type # "unreachable"
                /\ \A i \in 1..n : parameters[i].typ # "unreachable"]

\* ast::Function { id, name, parameters, body, return_type }
AstFunction(c) ==
    [id |-> c.id, name |-> c.name, parameters |-> c.parameters,
     body |-> [kind |-> "Block", calls |-> c.body], return_type |-> c.return_type]

NoFunction == [f |-> "", id |-> 0, name |-> "", parameters |-> <<>>,
               return_type |-> "", body |-> <<>>, expr |-> 0, bindings |-> NoBindings]

\* ReturnParamName with a slip: the parameter is named after the identifier
ReturnParamUnderscore == "_"

\* the name of the parameter added to main for its return value
ReturnParamName == "return"

\* monomorphise is called on a type checked program; no type variable is bound
InitMono ==
    /\ mono_pc = "start"
    /\ interner \in Programs
    /\ cells = [v \in TypeVars |-> Unbound]
    /\ globals = [k \in {} |-> 0]
    /\ locals = [d \in {} |-> 0]
    /\ queue = <<>>
    /\ next_local_id = 0
    /\ next_function_id = FirstFunctionId
    /\ functions = <<>>
    /\ current = NoFunction
    /\ call_log = <<>>
    /\ IdlePass
    /\ IdleBB
    /\ IdleFor
    /\ IdleDepth
    /\ IdleGadget

\* the state after BeginFunction
Begun(b, bindings) ==
    /\ locals' = b.locals
    /\ next_local_id' = b.next_local_id
    /\ current' = [f |-> b.f, id |-> b.id, name |-> b.name, parameters |-> b.parameters,
                   return_type |-> b.return_type, body |-> <<>>, expr |-> 1,
                   bindings |-> bindings]
    /\ mono_pc' = IF b.ok THEN "body" ELSE "panic"

\* compile_main: self.function(main_id, FuncId(0)) up to the body of main
CompileMain ==
    /\ mono_pc = "start"
    /\ Begun(BeginFunction(cells, locals, next_local_id, interner, MainId, MainFuncId),
             NoBindings)
    /\ UNCHANGED <<interner, cells, globals, queue, next_function_id, functions, call_log>>
    /\ UNCHANGED outsideMono

\* Monomorphiser::function_call on the next call expression of the body,
\* with queue_function when the function was not yet called at this type
FunctionCall ==
    /\ mono_pc = "body"
    /\ current.expr <= Len(interner[current.f].body)
    /\ LET call == interner[current.f].body[current.expr]
           typ == function_type(cells, interner, call)
           found == lookup_global(globals, call.func_id, typ)
           func_id == IF found # <<>> THEN found[1] ELSE next_function_id
           known == \A i \in DOMAIN call.arguments :
                       call.arguments[i] = "literal" \/ call.arguments[i] \in DOMAIN locals
       IN  /\ IF found # <<>>
              THEN UNCHANGED <<globals, queue, next_function_id>>
              ELSE /\ next_function_id' = next_function_id + 1
                   /\ globals' = define_global(globals, call.func_id, typ, next_function_id)
                   /\ queue' = push_back(queue, <<call.func_id, next_function_id, call.bindings>>)
           /\ current' = [current EXCEPT
                            !.body = Append(@, [func_id |-> func_id,
                                                arguments |-> call.arguments]),
                            !.expr = @ + 1]
           /\ call_log' = Append(call_log, [caller |-> current.id, func |-> call.func_id,
                                            typ |-> typ, func_id |-> func_id,
                                            queued |-> found = <<>>])
           /\ mono_pc' = IF known THEN "body" ELSE "panic"
    /\ UNCHANGED <<interner, cells, locals, next_local_id, functions>>
    /\ UNCHANGED outsideMono

\* compile_main after self.function: a main that returns a value is given
\* a parameter for it and its body is constrained to equal the parameter
FinishMain ==
    /\ mono_pc = "body"
    /\ current.id = MainFuncId
    /\ current.expr > Len(interner[current.f].body)
    /\ LET main == AstFunction(current)
       IN  IF main.return_type # "Unit"
           THEN LET id == next_local_id
                    typ == convert_type(cells, interner[MainId].return_type)
                    lhs == [id |-> id, name |-> "_", typ |-> typ]
                    eq == [operator |-> "Equal", lhs |-> lhs, rhs |-> main.body]
                IN  /\ next_local_id' = next_local_id + 1
                    /\ functions' =
                         <<[main EXCEPT
                              !.parameters = Append(@, [id |-> id, typ |-> main.return_type,
                                                        name |-> ReturnParamName]),
                              !.return_type = "Unit",
                              !.body = [kind |-> "Constrain", eq |-> eq]]>>
           ELSE /\ functions' = <<main>>
                /\ UNCHANGED next_local_id
    /\ current' = NoFunction
    /\ mono_pc' = "loop"
    /\ UNCHANGED <<interner, cells, globals, locals, queue, next_function_id, call_log>>
    /\ UNCHANGED outsideMono

\* monomorphise, one turn of the loop up to the body of the function: the
\* front of the queue is taken, the locals are cleared, the bindings are
\* performed and Monomorphiser::function is called
PopFront ==
    /\ mono_pc = "loop"
    /\ queue # <<>>
    /\ LET next_fn_id == queue[1][1]
           new_id == queue[1][2]
           bindings == queue[1][3]
           cs == perform_instantiation_bindings(cells, bindings)
       IN  /\ cells' = cs
           /\ Begun(BeginFunction(cs, [d \in {} |-> 0], next_local_id, interner,
                                  next_fn_id, new_id),
                    bindings)
    /\ queue' = Tail(queue)
    /\ UNCHANGED <<interner, globals, next_function_id, functions, call_log>>
    /\ UNCHANGED outsideMono

\* monomorphise, the end of a turn of the loop: the function is pushed and
\* the bindings are undone
PushFunction ==
    /\ mono_pc = "body"
    /\ current.id # MainFuncId
    /\ current.expr > Len(interner[current.f].body)
    /\ functions' = Append(functions, AstFunction(current))
    /\ cells' = undo_instantiation_bindings(cells, current.bindings)
    /\ current' = NoFunction
    /\ mono_pc' = "loop"
    /\ UNCHANGED <<interner, globals, locals, queue, next_local_id, next_function_id,
                   call_log>>
    /\ UNCHANGED outsideMono

\* monomorphise returns the functions
ReturnFunctions ==
    /\ mono_pc = "loop"
    /\ queue = <<>>
    /\ mono_pc' = "done"
    /\ UNCHANGED <<interner, cells, globals, locals, queue, next_local_id,
                   next_function_id, functions, current, call_log>>
    /\ UNCHANGED outsideMono

NextMono ==
    \/ CompileMain
    \/ FunctionCall
    \/ FinishMain
    \/ PopFront
    \/ PushFunction
    \/ ReturnFunctions

SpecMono == InitMono /\ [][NextMono]_vars

(* ------------------------ the ECDSA secp256k1 gadget -------------------- *)
MaxElems == 2      \* the largest number of elements of an argument array

\* the number of arguments of the call (assert_eq!(.., 4))
GadgetArity == 4

\* Object: an Integer with its witness, a Linear with its witness that is
\* a unit or not, or a constant
Integer(witness) == [kind |-> "Integer", witness |-> witness, unit |-> TRUE]
Linear(witness, unit) == [kind |-> "Linear", witness |-> witness, unit |-> unit]
Constants == [kind |-> "Constants", witness |-> 0, unit |-> TRUE]

\* the witness of element k of argument a
ArgWitness(a, k) == (a - 1) * MaxElems + k

\* what an argument expression evaluates to: an error, or an array of at
\* most MaxElems elements that are Integers, Integers and unit Linears in
\* turn, or that end with a constant or with a Linear that is not a unit
ArgValues(a) ==
    {[is_array |-> FALSE, contents |-> <<>>, error |-> a]}
    \cup
    {[is_array |-> TRUE, error |-> 0,
      contents |-> [k \in 1..n |->
          CASE pattern = "constant" /\ k = n -> Constants
            [] pattern = "non_unit" /\ k = n -> Linear(ArgWitness(a, k), FALSE)
            [] pattern = "linear" /\ k % 2 = 0 -> Linear(ArgWitness(a, k), TRUE)
            [] OTHER -> Integer(ArgWitness(a, k))]] :
     n \in 0..MaxElems, pattern \in {"integer", "linear", "constant", "non_unit"}}

\* Array::from_expression: the array an argument evaluates to, or the error
from_expression(argument) ==
    IF argument.is_array THEN Ok(0, argument.contents) ELSE Err(argument.error)

\* the bits of every gadget input (num_bits: 8)
NumBits == 8

\* GadgetInput { witness, num_bits }
GadgetInput(witness) == [witness |-> witness, num_bits |-> NumBits]

\* the match on an element: an Integer or a unit Linear has a witness, any
\* other object is not implemented
Implemented(element) ==
    \/ element.kind = "Integer"
    \/ element.kind = "Linear" /\ element.unit

\* one loop of prepare_inputs over the contents of an array
InputsOf(contents) == [k \in DOMAIN contents |-> GadgetInput(contents[k].witness)]

\* EcdsaSecp256k1Gadget::prepare_inputs: the arguments are popped from the
\* back, evaluated from the front, and the inputs are those of pub_key_x,
\* pub_key_y, signature and message.  kind is "ok", "err" or "panic".
prepare_inputs(arguments) ==
    IF Len(arguments) # GadgetArity THEN [kind |-> "panic", inputs |-> <<>>, error |-> 0]
    ELSE LET pub_key_y == from_expression(arguments[4])
             pub_key_x == from_expression(arguments[3])
             message == from_expression(arguments[2])
             signature == from_expression(arguments[1])
             evaluated == <<signature, message, pub_key_x, pub_key_y>>
             looped == <<pub_key_x, pub_key_y, signature, message>>
         IN  IF \E i \in 1..4 : ~ evaluated[i].ok
             THEN [kind |-> "err", inputs |-> <<>>,
                   error |-> evaluated[CHOOSE i \in 1..4 :
                                          /\ ~ evaluated[i].ok
                                          /\ \A j \in 1..(i - 1) : evaluated[j].ok].p]
             ELSE IF \E i \in 1..4 : \E k \in DOMAIN looped[i].value :
                        ~ Implemented(looped[i].value[k])
             THEN [kind |-> "panic", inputs |-> <<>>, error |-> 0]
             ELSE [kind |-> "ok", error |-> 0,
                   inputs |-> InputsOf(pub_key_x.value) \o InputsOf(pub_key_y.value)
                              \o InputsOf(signature.value) \o InputsOf(message.value)]

\* Evaluator::add_witness_to_cs: the next witness index
add_witness_to_cs(ev) == ev.current_witness_index + 1

\* call is entered with an evaluator that has made every witness of the
\* arguments and may hold a gate
InitGadget ==
    /\ gadget_pc = "start"
    /\ call_expr \in [1..GadgetArity -> UNION {ArgValues(a) : a \in 1..GadgetArity}]
    /\ \A a \in 1..GadgetArity : call_expr[a] \in ArgValues(a)
    /\ evaluator \in {[gates |-> g, current_witness_index |-> GadgetArity * MaxElems] :
                        g \in {<<>>, <<[name |-> "Arithmetic", inputs |-> <<>>,
                                        outputs |-> <<>>]>>}}
    /\ evaluator_before = evaluator
    /\ gadget_inputs = <<>>
    /\ gadget_result = <<>>
    /\ IdlePass
    /\ IdleBB
    /\ IdleFor
    /\ IdleDepth
    /\ IdleMono

\* call, line 23: the inputs are prepared; an error is returned by call
PrepareInputs ==
    /\ gadget_pc = "start"
    /\ LET prepared == prepare_inputs(call_expr)
       IN  /\ gadget_inputs' = prepared.inputs
           /\ gadget_pc' = CASE prepared.kind = "ok" -> "prepared"
                             [] prepared.kind = "err" -> "returned"
                             [] OTHER -> "panic"
           /\ gadget_result' = IF prepared.kind = "err"
                               THEN [ok |-> FALSE, error |-> prepared.error]
                               ELSE gadget_result
    /\ UNCHANGED <<call_expr, evaluator, evaluator_before>>
    /\ UNCHANGED outsideGadget

\* call, lines 29-40: a witness is added, the gate is pushed and the
\* witness is returned
PushGate ==
    /\ gadget_pc = "prepared"
    /\ LET verify_witness == add_witness_to_cs(evaluator)
           verify_gate == [name |-> "EcdsaSecp256k1", inputs |-> gadget_inputs,
                           outputs |-> <<verify_witness>>]
       IN  /\ evaluator' = [gates |-> Append(evaluator.gates, verify_gate),
                            current_witness_index |-> verify_witness]
           /\ gadget_result' = [ok |-> TRUE, witness |-> verify_witness]
    /\ gadget_pc' = "returned"
    /\ UNCHANGED <<call_expr, gadget_inputs, evaluator_before>>
    /\ UNCHANGED outsideGadget

NextGadget ==
    \/ PrepareInputs
    \/ PushGate

SpecGadget == InitGadget /\ [][NextGadget]_vars

(* ---------------------------- reading values --------------------------- *)
IsSlice(dfg, v) == dfg[v].k = "Array" /\ dfg[v].typ.k = "Slice"
IsZero(dfg, v) == dfg[v].k = "NumericConstant" /\ dfg[v].n = 0
RowCount(dfg, v) == Len(dfg[v].array) \div Len(dfg[v].typ.el)

\* the numeric constants of a flat slice, e.g. <<1, 1, 1, 0>>
Numbers(dfg, v) == [i \in DOMAIN dfg[v].array |-> dfg[dfg[v].array[i]].n]

\* the rewritten operands of this run: (emitted record, operand) pairs
Rewritten == {e \in {emitted[i] : i \in DOMAIN emitted} : e.replaced # 0}
OldOperand(e) == e.pre.args[e.replaced]
NewOperand(e) == e.new.args[e.replaced]
Dfg(e) == ssa[e.fn].dfg

\* an ArrayGet on a tracked constant of type [(Field, [Field])]
NestedGets ==
    {e \in Rewritten : e.pre.op = "ArrayGet"
                       /\ type_of_value(Dfg(e), OldOperand(e)) = NestedSlice}

\* the inner slices of the tracked values of the block of e, and the
\* length of the largest one
InnerOfTracked(e) ==
    {v \in DOMAIN Dfg(e) :
        /\ IsSlice(Dfg(e), v)
        /\ \E i \in DOMAIN e.tracked :
              \E j \in DOMAIN Dfg(e)[e.tracked[i]].array :
                 Dfg(e)[e.tracked[i]].array[j] = v}
LargestInner(e) == Max({0} \cup {RowCount(Dfg(e), v) : v \in InnerOfTracked(e)})

\* every row of the new operand keeps its length field, and its inner slice
\* has count elements: the elements of the old inner slice, then zeros
InnerFilled(e, count) ==
    LET dfg == Dfg(e)
        old == dfg[OldOperand(e)].array
        new == dfg[NewOperand(e)].array
    IN  /\ IsSlice(dfg, NewOperand(e))
        /\ Len(new) = Len(old)
        /\ \A r \in 1..(Len(old) \div 2) :
              /\ new[2 * r - 1] = old[2 * r - 1]
              /\ IsSlice(dfg, new[2 * r])
              /\ Len(dfg[new[2 * r]].array) = count
              /\ \A i \in 1..count :
                    IF i <= Len(dfg[old[2 * r]].array)
                    THEN dfg[new[2 * r]].array[i] = dfg[old[2 * r]].array[i]
                    ELSE IsZero(dfg, dfg[new[2 * r]].array[i])

RECURSIVE SliceLengths(_, _, _)
\* the (depth, row count) pairs of the slices inside a value; depth counts
\* the slice layers above, an array adds none
SliceLengths(dfg, v, d) ==
    IF dfg[v].k # "Array" THEN {}
    ELSE LET slice == dfg[v].typ.k = "Slice"
         IN  (IF slice THEN {<<d, RowCount(dfg, v)>>} ELSE {})
             \cup UNION {SliceLengths(dfg, dfg[v].array[i], IF slice THEN d + 1 ELSE d) :
                            i \in DOMAIN dfg[v].array}

\* C2: in the operands emitted for one block, the slices at one nesting
\* depth d >= 1 all have the same length, those inside fixed-length arrays
\* included.
C2_DepthUniform ==
    \A e1 \in Rewritten : \A e2 \in Rewritten :
        (e1.fn = e2.fn /\ e1.bk = e2.bk) =>
            \A x \in SliceLengths(Dfg(e1), NewOperand(e1), 0) :
                \A y \in SliceLengths(Dfg(e2), NewOperand(e2), 0) :
                    (x[1] = y[1] /\ x[1] >= 1) => x[2] = y[2]

(* ---------------------------- C3 --------------------------------------- *)
RECURSIVE PrefixKept(_, _, _, _)
\* new starts with the elements of old, nested slices likewise
PrefixKept(dfg, vals, old, new) ==
    IF IsSlice(dfg, old)
    THEN /\ IsSlice(dfg, new)
         /\ Len(dfg[new].array) >= Len(dfg[old].array)
         /\ \A i \in DOMAIN dfg[old].array :
               PrefixKept(dfg, vals, dfg[old].array[i], dfg[new].array[i])
    ELSE new = resolve(vals, old)

\* C3: every rewritten operand, and every slice inside it, starts with the
\* elements it had before the pass; nothing is truncated.
C3_PrefixPreserved ==
    \A e \in Rewritten : PrefixKept(Dfg(e), e.vals, OldOperand(e), NewOperand(e))

(* ---------------------------- C4 --------------------------------------- *)
RECURSIVE ZeroShaped(_, _, _, _)
\* v has the shape of typ with zero constants at the leaves; a slice has max rows
ZeroShaped(dfg, typ, v, max) ==
    CASE typ.k = "Numeric" -> IsZero(dfg, v)
      [] typ.k \in {"Array", "Slice"} ->
           LET rows == IF typ.k = "Array" THEN typ.len ELSE max
           IN  /\ dfg[v].k = "Array"
               /\ dfg[v].typ = typ
               /\ Len(dfg[v].array) = rows * Len(typ.el)
               /\ \A i \in DOMAIN dfg[v].array :
                     ZeroShaped(dfg, typ.el[((i - 1) % Len(typ.el)) + 1],
                                dfg[v].array[i], max)
      [] OTHER -> FALSE

\* C4: a value synthesized with no known value has the shape of its type:
\* a zero for Numeric, len rows for an array, nested_max rows for a slice,
\* every row holding one synthesized value per element type.
C4_ZeroShape ==
    \A d \in dummies : ZeroShaped(ssa[d.fn].dfg, d.typ, d.id, d.max)

\* a padded row of an array and a slice was synthesized
C4_Witness ==
    /\ \E d \in dummies : d.typ.k = "Array" /\ d.typ.len > 0
    /\ \E d \in dummies : d.typ.k = "Slice" /\ d.max > 0

(* ---------------------------- C5 --------------------------------------- *)
RECURSIVE Content(_, _)
\* what a value holds: a constant its number, a slice or array its
\* elements, any other value nothing
Content(dfg, v) ==
    CASE dfg[v].k = "NumericConstant" -> [n |-> dfg[v].n, sub |-> <<>>]
      [] dfg[v].k = "Array" ->
           [n |-> -1, sub |-> [i \in DOMAIN dfg[v].array |-> Content(dfg, dfg[v].array[i])]]
      [] OTHER -> [n |-> -2, sub |-> <<>>]

\* two blocks with as many instructions, of the same kind, whose operands
\* hold the same
SameBlock(dfg1, b1, dfg2, b2) ==
    /\ Len(b1.instructions) = Len(b2.instructions)
    /\ \A i \in DOMAIN b1.instructions :
          /\ i \in DOMAIN b2.instructions
          /\ b1.instructions[i].op = b2.instructions[i].op
          /\ Len(b1.instructions[i].args) = Len(b2.instructions[i].args)
          /\ \A a \in DOMAIN b1.instructions[i].args :
                Content(dfg1, b1.instructions[i].args[a])
                    = Content(dfg2, b2.instructions[i].args[a])

\* C5: the pass run on its own output changes nothing: every block has the
\* same number of instructions and every operand the same contents.
C5_Idempotent ==
    (pc = "done" /\ run = 2) =>
        \A f \in DOMAIN ssa : \A b \in DOMAIN ssa[f].blocks :
            SameBlock(out1[f].dfg, out1[f].blocks[b], ssa[f].dfg, ssa[f].blocks[b])

(* ---------------------------- C6 --------------------------------------- *)
\* C6: the pass never scans or rewrites a block of an ACIR function with
\* more than one block, and never gets past such a function.
C6_MultiBlockAborts ==
    \A f \in DOMAIN ssa :
        (ssa[f].runtime = "Acir" /\ Len(ssa[f].blocks) > 1) =>
            /\ fn <= f
            /\ fn = f => (pc \notin {"collect", "rewrite"} /\ bk = 1)

(* ---------------------------- C7 --------------------------------------- *)
\* C7: a function that is not an ACIR function is, at every step of the
\* pass, the function the pass was given.
C7_BrilligUnchanged ==
    \A f \in DOMAIN ssa : input[f].runtime # "Acir" => ssa[f] = input[f]

\* the pass returned, it rewrote an ACIR function and left a Brillig one
C7_Witness ==
    /\ pc = "done"
    /\ \E f \in DOMAIN ssa : input[f].runtime # "Acir"
    /\ \E f \in DOMAIN ssa : input[f].runtime = "Acir" /\ ssa[f] # input[f]

(* ---------------------------- C8 --------------------------------------- *)
Emitted == {emitted[i] : i \in DOMAIN emitted}

\* the argument positions of a call that hold a tracked value whose type
\* contains a slice
QualSet(e) ==
    {k \in DOMAIN e.pre.args :
        /\ \E i \in DOMAIN e.tracked : e.tracked[i] = e.pre.args[k]
        /\ contains_slice_element(type_of_value(Dfg(e), e.pre.args[k]))}

\* C8: a re-emitted Call has the callee and the number of arguments of the
\* original, and every argument that does not qualify is the original
\* argument under the substitution in effect.
C8_CallFrame ==
    \A e \in Emitted :
        e.pre.op = "Call" =>
            /\ e.new.op = "Call"
            /\ e.new.func = resolve(e.vals, e.pre.func)
            /\ Len(e.new.args) = Len(e.pre.args)
            /\ \A k \in DOMAIN e.pre.args :
                  k \notin QualSet(e) => e.new.args[k] = resolve(e.vals, e.pre.args[k])

\* a call with a replaced argument, beside an argument that does not
\* qualify and is the result of a re-emitted instruction
C8_Witness ==
    \E e \in Emitted :
        /\ e.pre.op = "Call"
        /\ \E k \in QualSet(e) : e.new.args[k] # e.pre.args[k]
        /\ \E k \in DOMAIN e.pre.args :
              k \notin QualSet(e) /\ resolve(e.vals, e.pre.args[k]) # e.pre.args[k]

(* ---------------------------- C9 --------------------------------------- *)
\* the last instruction emitted for an original instruction
LastEmitted ==
    {emitted[i] : i \in {i \in DOMAIN emitted :
        \A j \in DOMAIN emitted :
            (j > i) => <<emitted[j].fn, emitted[j].bk, emitted[j].ip>>
                         # <<emitted[i].fn, emitted[i].bk, emitted[i].ip>>}}

\* C9: the last call emitted for a Call with two or more qualifying
\* arguments has every qualifying argument replaced.
C9_AllReplaced ==
    \A e \in LastEmitted :
        (e.pre.op = "Call" /\ Cardinality(QualSet(e)) >= 2) =>
            \A k \in QualSet(e) : e.new.args[k] # resolve(e.vals, e.pre.args[k])

(* ---------------------------- C10 -------------------------------------- *)
RECURSIVE HoldsUnsupported(_, _)
\* a value of Reference or Function type, or a slice or array holding one
HoldsUnsupported(dfg, v) ==
    \/ dfg[v].typ.k \in {"Reference", "Function"}
    \/ /\ dfg[v].k = "Array"
       /\ \E i \in DOMAIN dfg[v].array : HoldsUnsupported(dfg, dfg[v].array[i])

\* C10: no emitted operand that the pass rewrote holds an element of
\* Reference or Function type: the pass stops with an error instead.
C10_UnsupportedAborts ==
    \A e \in Rewritten : ~HoldsUnsupported(Dfg(e), NewOperand(e))

(* ---------------------------- C11 -------------------------------------- *)
\* the scan of one instruction of a block by the capacity tracker
ScanStep == pc = "collect" /\ ip <= Len(instructions) /\ ip' = ip + 1

\* the scanned instruction is a call of the intrinsic numbered n
ScansIntrinsic(n) ==
    /\ instructions[ip].op = "Call"
    /\ ssa[fn].dfg[instructions[ip].func].n = n
    /\ instructions[ip].args[2] \in DOMAIN tracker.slice_sizes

\* C11: across the scan of one instruction no recorded length decreases and
\* the bound the resolver yields for the records, where it yields one, does
\* not decrease; slice_push_back gives the result an entry larger than the
\* one of the slice it was made from, slice_pop_back gives the result that
\* entry unchanged.
C11_MonotonicBound ==
    [][ScanStep =>
        /\ \A v \in DOMAIN tracker.slice_sizes :
              /\ v \in DOMAIN tracker'.slice_sizes
              /\ tracker'.slice_sizes[v].size >= tracker.slice_sizes[v].size
        /\ ComputeNestedMax(ssa[fn].dfg, tracker'.mapped_slice_values,
                            tracker'.slice_sizes) # -1
              => ComputeNestedMax(ssa[fn].dfg, tracker'.mapped_slice_values,
                                  tracker'.slice_sizes)
                    >= ComputeNestedMax(ssa[fn].dfg, tracker.mapped_slice_values,
                                        tracker.slice_sizes)
        /\ ScansIntrinsic(SlicePushBack) =>
              tracker'.slice_sizes[instructions[ip].results[2]].size
                  > tracker.slice_sizes[instructions[ip].args[2]].size
        /\ ScansIntrinsic(SlicePopBack) =>
              tracker'.slice_sizes[instructions[ip].results[2]].size
                  = tracker.slice_sizes[instructions[ip].args[2]].size]_vars

\* slice_push_back and then slice_pop_back were scanned: the popped slice
\* is recorded one longer than the constant the push started from
C11_Witness ==
    /\ pc = "collect"
    /\ ip = 4
    /\ instructions[2].op = "Call" /\ instructions[3].op = "Call"
    /\ ssa[fn].dfg[instructions[3].func].n = SlicePopBack
    /\ instructions[3].results[2] \in DOMAIN tracker.slice_sizes
    /\ tracker.slice_sizes[instructions[3].results[2]].size
          = RowCount(ssa[fn].dfg, instructions[2].args[2]) + 1

(* ---------------------------- C12 -------------------------------------- *)
\* C12: lookup of the name of a variant returns that variant, for every
\* variant of the enum; no two variants have one name.
C12_NameLookupIdentity ==
    /\ bb_pc \in {"resolved", "done"} => resolved_func = SomeFunc(bb_func)
    /\ bb_pc = "named" =>
          \A i \in DOMAIN BlackBoxFunc :
              name(BlackBoxFunc[i]) = op_name => BlackBoxFunc[i] = bb_func

\* the name of the r1 curve variant was looked up, and it was found
C12_Witness ==
    /\ bb_pc = "resolved"
    /\ bb_func = "EcdsaSecp256r1"
    /\ op_name = "ecdsa_secp256r1"
    /\ resolved_func = SomeFunc("EcdsaSecp256r1")

(* ---------------------------- C13 -------------------------------------- *)
RECURSIVE Flat(_)
\* the tokens of an expression, in the order of the text
Flat(e) == IF Len(e) = 1 THEN e ELSE Flat(e[1]) \o <<e[2]>> \o Flat(e[3])

\* the text is `for IDENT in <expr> .. <expr> { <stmts> }`
WellFormed(s) == s.first \in Idents /\ s.sep = <<"..">> /\ s.close

\* the position of the closing brace of the loop body
ClosePos(s) == 3 + Len(s.start) + Len(s.sep) + Len(s.end) + 1 + Len(s.body) + 1

\* C13: on `for IDENT in <expr> .. <expr> { <stmts> }`, entered on `for`,
\* ForParser::parse returns no error; it returns a For expression of the
\* identifier and of the two range expressions, whatever expressions they
\* are, with the cursor on the closing brace of the body.
C13_ValidSyntax ==
    (for_pc # "idle" /\ WellFormed(source)) =>
        /\ for_pc # "err"
        /\ for_pc = "done" =>
              /\ parsed.kind = "For"
              /\ parsed.identifier = source.first
              /\ Flat(parsed.start_range) = source.start
              /\ Flat(parsed.end_range) = source.end
              /\ curr_token(parser) = "}"
              /\ parser.cursor = ClosePos(source)

\* `for i in x+y..z { x; }` followed by another brace was parsed
C13_Witness ==
    /\ for_pc = "done"
    /\ source.start = <<"x", "+", "y">>
    /\ source.end = <<"z">>
    /\ source.body = <<"x", ";">>
    /\ source.rest = <<"}">>
    /\ parsed.kind = "For"
    /\ parser.cursor = ClosePos(source)

(* ---------------------------- C14 -------------------------------------- *)
\* C14: when the token after `for` is not an identifier, or the range
\* bounds are separated by anything but the one token `..`, ForParser::parse
\* returns no For expression, and at its end it has returned an error.
C14_InvalidSyntax ==
    (for_pc # "idle" /\ (source.first \notin Idents \/ source.sep # <<"..">>)) =>
        /\ for_pc # "done"
        /\ parsed.kind # "For"
        /\ for_pc = "err" => parsed.kind = "Err"

\* `for i in 0...100 {}` and `for 1 in ..` were refused
C14_Witness ==
    /\ for_pc = "err"
    /\ parsed.kind = "Err"
    /\ \/ source.first = "i" /\ source.sep = <<"..", ".">> /\ source.close
       \/ source.first = "1" /\ source.sep = <<"..">> /\ source.close

(* ---------------------------- C15 -------------------------------------- *)
\* the instructions emitted for the original instruction e was emitted for
EmittedFor(e) == {d \in Emitted : <<d.fn, d.bk, d.ip>> = <<e.fn, e.bk, e.ip>>}

\* an ArrayGet or ArraySet whose array is a tracked value
TrackedArrayOp(instruction, tracked) ==
    instruction.op \in {"ArrayGet", "ArraySet"} /\ Contains(tracked, instruction.args[1])

\* C15: an ArrayGet or ArraySet on a tracked value is emitted once, as an
\* instruction of the same kind with the original call stack; its array is
\* a new slice constant of the rows of the original array, its index and
\* value are the original ones under the substitution in effect.
C15_ArrayOpRewritten ==
    /\ \A e \in Emitted :
          TrackedArrayOp(e.pre, e.tracked) =>
              /\ EmittedFor(e) = {e}
              /\ e.new.op = e.pre.op
              /\ e.new.cs = e.pre.cs
              /\ Len(e.new.args) = Len(e.pre.args)
              /\ e.new.args[1] # e.pre.args[1]
              /\ IsSlice(Dfg(e), e.new.args[1])
              /\ type_of_value(Dfg(e), e.new.args[1]) = type_of_value(Dfg(e), e.pre.args[1])
              /\ RowCount(Dfg(e), e.new.args[1]) = RowCount(Dfg(e), e.pre.args[1])
              /\ \A k \in 2..Len(e.pre.args) : e.new.args[k] = resolve(e.vals, e.pre.args[k])
    /\ pc = "rewrite" =>
          \A j \in 1..(ip - 1) :
              TrackedArrayOp(instructions[j], slice_values) =>
                  \E e \in Emitted : <<e.fn, e.bk, e.ip>> = <<fn, bk, j>>

\* an ArraySet on a tracked value of one row, in a block whose bound is
\* four, was emitted with an index and a value that earlier instructions of
\* the block were re-emitted for
C15_Witness ==
    \E e \in Emitted :
        /\ e.pre.op = "ArraySet"
        /\ TrackedArrayOp(e.pre, e.tracked)
        /\ RowCount(Dfg(e), e.new.args[1]) = 1
        /\ e.max = 4
        /\ e.new.args[2] # e.pre.args[2]
        /\ e.new.args[3] # e.pre.args[3]

(* ---------------------------- C16 -------------------------------------- *)
\* the replaced arguments of the calls emitted in this run
RewrittenCalls == {e \in Rewritten : e.pre.op = "Call"}

\* C16: the slice put in the place of a qualifying Call argument has as
\* many rows as the argument: the argument is treated as the outermost
\* slice and only the slices nested in it are padded.
C16_CallOutermost ==
    \A e \in RewrittenCalls :
        /\ IsSlice(Dfg(e), NewOperand(e))
        /\ RowCount(Dfg(e), NewOperand(e)) = RowCount(Dfg(e), OldOperand(e))

(* ---------------------------- C17 -------------------------------------- *)
\* the entry of the slice sizes map a value stands for
Entry(v) == tracker.slice_sizes[resolve_slice_value(tracker.mapped_slice_values, v)]
Kids(v) == {Entry(v).children[i] : i \in DOMAIN Entry(v).children}

\* the values recorded as a child of an entry
AllKids == UNION {Kids(v) : v \in DOMAIN tracker.slice_sizes}

RECURSIVE Level(_)
\* the recorded values at nesting depth d: the values that are no child at
\* depth 0, the children of the values of depth d - 1 at depth d
Level(d) ==
    IF d = 0 THEN (DOMAIN tracker.slice_sizes) \ AllKids
    ELSE UNION {Kids(v) : v \in Level(d - 1)}

\* the largest length recorded at depth d
LargestAt(d) == Max({0} \cup {Entry(v).size : v \in Level(d)})

RECURSIVE NestedLengths(_, _, _)
\* the (depth, row count) pairs of the slices of a slice constant, slices
\* held in fixed-length arrays left out
NestedLengths(dfg, v, d) ==
    IF ~IsSlice(dfg, v) THEN {}
    ELSE {<<d, RowCount(dfg, v)>>}
         \cup UNION {NestedLengths(dfg, dfg[v].array[i], d + 1) : i \in DOMAIN dfg[v].array}

\* the operands rewritten so far in the block being rewritten
RewrittenHere == {e \in Rewritten : pc = "rewrite" /\ e.fn = fn /\ e.bk = bk}

ElementType(dfg, v, i) == dfg[v].typ.el[((i - 1) % Len(dfg[v].typ.el)) + 1]

\* C18: at a Numeric position the synthesizer gives the known value under
\* the substitution in effect; with no known value it gives a zero constant
\* of the numeric type of the position.
C18_NumericZeroTyped ==
    /\ \A e \in Rewritten :
          \A i \in DOMAIN Dfg(e)[NewOperand(e)].array :
              (/\ i \in DOMAIN Dfg(e)[OldOperand(e)].array
               /\ ElementType(Dfg(e), OldOperand(e), i).k = "Numeric") =>
                  Dfg(e)[NewOperand(e)].array[i]
                      = resolve(e.vals, Dfg(e)[OldOperand(e)].array[i])
    /\ \A d \in dummies :
          d.typ.k = "Numeric" =>
              /\ IsZero(ssa[d.fn].dfg, d.id)
              /\ type_of_value(ssa[d.fn].dfg, d.id) = d.typ

(* ---------------------------- C19 -------------------------------------- *)
\* the positions in emitted of the instructions emitted for the same
\* original instruction as emitted[x]
EmittedAt(x) ==
    {y \in DOMAIN emitted : <<emitted[y].fn, emitted[y].bk, emitted[y].ip>>
                               = <<emitted[x].fn, emitted[x].bk, emitted[x].ip>>}

\* C19: a Call with no qualifying argument is emitted once, every argument
\* the original one under the substitution in effect; a Call with k >= 1
\* qualifying arguments is emitted k times, the j-th time with the j-th
\* qualifying argument replaced by a new slice and every other argument the
\* original one under the substitution in effect.
C19_CallsPerArgument ==
    /\ \A x \in DOMAIN emitted :
          LET e == emitted[x]
              rank == Cardinality({y \in EmittedAt(x) : y <= x})
          IN  e.pre.op = "Call" =>
                /\ e.new.op = "Call"
                /\ IF QualSet(e) = {}
                   THEN /\ Cardinality(EmittedAt(x)) = 1
                        /\ \A k \in DOMAIN e.pre.args :
                              e.new.args[k] = resolve(e.vals, e.pre.args[k])
                   ELSE /\ Cardinality(EmittedAt(x)) = Cardinality(QualSet(e))
                        /\ \E q \in QualSet(e) :
                              /\ Cardinality({p \in QualSet(e) : p <= q}) = rank
                              /\ e.new.args[q] # resolve(e.vals, e.pre.args[q])
                              /\ IsSlice(Dfg(e), e.new.args[q])
                              /\ \A k \in DOMAIN e.pre.args :
                                    k # q => e.new.args[k] = resolve(e.vals, e.pre.args[k])
    /\ pc = "rewrite" =>
          \A j \in 1..(ip - 1) :
              instructions[j].op = "Call" =>
                  \E e \in Emitted : <<e.fn, e.bk, e.ip>> = <<fn, bk, j>>

\* a call with two qualifying arguments was emitted twice, with the first
\* one replaced and then with the second one replaced, and a call with no
\* qualifying argument was emitted once
C19_Witness ==
    /\ \E x \in DOMAIN emitted : \E q1 \in 1..4 : \E q2 \in 1..4 :
          /\ x > 1
          /\ q1 < q2
          /\ emitted[x].pre.op = "Call"
          /\ QualSet(emitted[x]) = {q1, q2}
          /\ EmittedAt(x) = {x - 1, x}
          /\ emitted[x - 1].new.args[q1] # emitted[x - 1].pre.args[q1]
          /\ emitted[x - 1].new.args[q2] = emitted[x - 1].pre.args[q2]
          /\ emitted[x].new.args[q1] = emitted[x].pre.args[q1]
          /\ emitted[x].new.args[q2] # emitted[x].pre.args[q2]
    /\ \E x \in DOMAIN emitted :
          /\ emitted[x].pre.op = "Call"
          /\ QualSet(emitted[x]) = {}
          /\ EmittedAt(x) = {x}

(* ---------------------------- C20 -------------------------------------- *)
\* the program this run of the pass was given
Original == IF run = 1 THEN input ELSE out1

\* the results of the instructions of function f before this run
OldResults(f) ==
    UNION {UNION {{Original[f].blocks[b].instructions[i].results[r] :
                      r \in DOMAIN Original[f].blocks[b].instructions[i].results} :
                  i \in DOMAIN Original[f].blocks[b].instructions} :
           b \in DOMAIN Original[f].blocks}

\* the positions in emitted, before position x, of the instructions emitted
\* for the original instruction of f that had the result r
EmittedForResult(f, r, x) ==
    {y \in DOMAIN emitted :
        /\ y < x
        /\ emitted[y].fn = f
        /\ \E p \in DOMAIN emitted[y].pre.results : emitted[y].pre.results[p] = r}

\* the result that stands for r in the last of them
LastNew(f, r, x) ==
    LET d == emitted[Max(EmittedForResult(f, r, x))]
    IN  d.new.results[CHOOSE p \in DOMAIN d.pre.results : d.pre.results[p] = r]

\* what a use of the value o must be after the pass, seen from position x
Renewed(f, o, x) ==
    IF o \in OldResults(f)
    THEN EmittedForResult(f, o, x) # {} /\ LastNew(f, o, x) \notin OldResults(f)
    ELSE TRUE
RenewedValue(f, o, x) == IF o \in OldResults(f) THEN LastNew(f, o, x) ELSE o

\* the ACIR functions the pass is done with in this run
Processed ==
    {f \in DOMAIN ssa : f < fn /\ f \in DOMAIN Original /\ Original[f].runtime = "Acir"}

\* C20: after the pass is done with an ACIR function, every operand of an
\* emitted instruction, every terminator operand and every data bus entry
\* that was the result of an original instruction is the result of the
\* last instruction emitted for that original: no result of an original
\* instruction is referred to.
C20_UsesRenewed ==
    \A f \in Processed :
        /\ \A x \in DOMAIN emitted :
              emitted[x].fn = f =>
                  \A k \in DOMAIN emitted[x].pre.args :
                      emitted[x].pre.args[k] \in OldResults(f) =>
                          /\ Renewed(f, emitted[x].pre.args[k], x)
                          /\ emitted[x].new.args[k]
                                = RenewedValue(f, emitted[x].pre.args[k], x)
        /\ \A b \in DOMAIN ssa[f].blocks :
              /\ \A i \in DOMAIN ssa[f].blocks[b].instructions :
                    \A k \in DOMAIN ssa[f].blocks[b].instructions[i].args :
                        ssa[f].blocks[b].instructions[i].args[k] \notin OldResults(f)
              /\ Len(ssa[f].blocks[b].terminator) = Len(Original[f].blocks[b].terminator)
              /\ \A i \in DOMAIN ssa[f].blocks[b].terminator :
                    /\ Renewed(f, Original[f].blocks[b].terminator[i], Len(emitted) + 1)
                    /\ ssa[f].blocks[b].terminator[i]
                          = RenewedValue(f, Original[f].blocks[b].terminator[i],
                                         Len(emitted) + 1)
        /\ Len(ssa[f].data_bus) = Len(Original[f].data_bus)
        /\ \A i \in DOMAIN ssa[f].data_bus :
              /\ Renewed(f, Original[f].data_bus[i], Len(emitted) + 1)
              /\ ssa[f].data_bus[i]
                    = RenewedValue(f, Original[f].data_bus[i], Len(emitted) + 1)

\* a call was emitted twice; the instruction after it, the terminator and
\* the data bus use the result of the second call
C20_Witness ==
    \E f \in Processed : \E x \in DOMAIN emitted :
        /\ x > 2
        /\ emitted[x].fn = f
        /\ emitted[x - 1].pre.op = "Call" /\ emitted[x - 2].pre.op = "Call"
        /\ emitted[x - 1].ip = emitted[x - 2].ip
        /\ emitted[x].pre.args[1] = emitted[x - 1].pre.results[1]
        /\ emitted[x].new.args[1] = emitted[x - 1].new.results[1]
        /\ ssa[f].blocks[1].terminator = <<emitted[x - 1].new.results[1]>>
        /\ ssa[f].data_bus = <<emitted[x - 1].new.results[1]>>
        /\ Original[f].data_bus = <<emitted[x - 1].pre.results[1]>>

(* ---------------------------- C21 -------------------------------------- *)
\* an instruction the rewriter leaves as it is: not an ArrayGet or ArraySet
\* on a tracked value and not a Call with a qualifying argument
Plain(e) ==
    /\ ~TrackedArrayOp(e.pre, e.tracked)
    /\ ~(e.pre.op = "Call" /\ QualSet(e) # {})

\* the instructions emitted for block b of function f, in the order emitted
StreamOf(f, b) == SelectSeq(emitted, LAMBDA e : e.fn = f /\ e.bk = b)

\* C21: an instruction that is neither an ArrayGet or ArraySet on a tracked
\* value nor a Call with a qualifying argument is emitted exactly once, with
\* its operation, its call stack and its operands under the substitution in
\* effect; the instructions are emitted in the order of the originals, and
\* the block of a processed function holds the emitted instructions in
\* that order.
C21_OthersUnchanged ==
    /\ \A x \in DOMAIN emitted :
          Plain(emitted[x]) =>
              /\ EmittedAt(x) = {x}
              /\ emitted[x].new.op = emitted[x].pre.op
              /\ emitted[x].new.cs = emitted[x].pre.cs
              /\ emitted[x].new.func = (IF emitted[x].pre.func = 0 THEN 0
                                        ELSE resolve(emitted[x].vals, emitted[x].pre.func))
              /\ emitted[x].new.args
                    = [k \in DOMAIN emitted[x].pre.args |->
                         resolve(emitted[x].vals, emitted[x].pre.args[k])]
    /\ pc = "rewrite" =>
          \A j \in 1..(ip - 1) :
              Plain([fn |-> fn, pre |-> instructions[j], tracked |-> slice_values]) =>
                  Cardinality({x \in DOMAIN emitted :
                                 <<emitted[x].fn, emitted[x].bk, emitted[x].ip>>
                                    = <<fn, bk, j>>}) = 1
    /\ \A x \in DOMAIN emitted : \A y \in DOMAIN emitted :
          x < y =>
              \/ emitted[x].fn < emitted[y].fn
              \/ /\ emitted[x].fn = emitted[y].fn
                 /\ emitted[x].bk < emitted[y].bk
              \/ /\ emitted[x].fn = emitted[y].fn
                 /\ emitted[x].bk = emitted[y].bk
                 /\ emitted[x].ip <= emitted[y].ip
    /\ \A f \in Processed : \A b \in DOMAIN ssa[f].blocks :
          ssa[f].blocks[b].instructions
             = [k \in DOMAIN StreamOf(f, b) |-> StreamOf(f, b)[k].new]

\* a processed block of three instructions: an instruction of another kind,
\* a rewritten ArrayGet on a tracked value, and an instruction of another
\* kind that uses the result of the ArrayGet and was emitted with the
\* result of the rewritten one
C21_Witness ==
    \E f \in Processed :
        /\ Len(StreamOf(f, 1)) = 3
        /\ Plain(StreamOf(f, 1)[1]) /\ StreamOf(f, 1)[1].pre.op = "Other"
        /\ ~Plain(StreamOf(f, 1)[2]) /\ StreamOf(f, 1)[2].pre.op = "ArrayGet"
        /\ Plain(StreamOf(f, 1)[3]) /\ StreamOf(f, 1)[3].pre.op = "Other"
        /\ StreamOf(f, 1)[3].pre.args[1] = StreamOf(f, 1)[2].pre.results[1]
        /\ StreamOf(f, 1)[3].new.args[1] = StreamOf(f, 1)[2].new.results[1]
        /\ StreamOf(f, 1)[3].new.args[1] # StreamOf(f, 1)[3].pre.args[1]

(* ---------------------------- C22 -------------------------------------- *)
RECURSIVE Paths(_)
\* the positions of a type: the paths of element indices from its root
Paths(t) ==
    {<<>>} \cup UNION {{<<i>> \o p : p \in Paths(t.el[i])} : i \in DOMAIN t.el}

RECURSIVE NodeAt(_, _)
\* the type at a position
NodeAt(t, p) == IF p = <<>> THEN t ELSE NodeAt(t.el[p[1]], Tail(p))

\* the number of Slice types on the way from the root to a position
SliceLayersTo(t, p) ==
    Cardinality({n \in 0..Len(p) : NodeAt(t, SubSeq(p, 1, n)).k = "Slice"})

\* the number of Slice layers from the root to the innermost sequence
SliceLayers(t) == Max({SliceLayersTo(t, p) : p \in Paths(t)})

HasSlice(t) == \E p \in Paths(t) : NodeAt(t, p).k = "Slice"

\* the sequence nesting is a single chain: no type has two element types
\* that hold slices
SingleChain(t) ==
    \A p \in Paths(t) :
        Cardinality({i \in DOMAIN NodeAt(t, p).el : HasSlice(NodeAt(t, p).el[i])}) <= 1

RECURSIVE SumOf(_)
SumOf(seq) == IF seq = <<>> THEN 0 ELSE Head(seq) + SumOf(Tail(seq))

\* the depths the function gives for the element types of a type
ElementDepths(t) == [i \in DOMAIN t.el |-> compute_nested_slice_depth(t.el[i])]

\* C22: compute_nested_slice_depth gives, for a Slice, one plus the depths
\* of its element types; for an Array, the depths of its element types;
\* for a Reference, the depth of the type referred to; for Numeric and
\* Function, zero.  For a type whose nesting is a single chain it gives the
\* number of Slice layers from the root to the innermost sequence.
C22_StructuralDepth ==
    nd_pc = "done" =>
        /\ nd_typ.k = "Slice" => nd_depth = 1 + SumOf(ElementDepths(nd_typ))
        /\ nd_typ.k = "Array" => nd_depth = SumOf(ElementDepths(nd_typ))
        /\ nd_typ.k = "Reference" => nd_depth = compute_nested_slice_depth(nd_typ.el[1])
        /\ nd_typ.k \in {"Numeric", "Function"} => nd_depth = 0
        /\ nd_depth = Cardinality({p \in Paths(nd_typ) : NodeAt(nd_typ, p).k = "Slice"})
        /\ SingleChain(nd_typ) => nd_depth = SliceLayers(nd_typ)

\* the depth of a chain of two slice layers with an array and a reference
\* on the way was computed
C22_Witness ==
    /\ nd_pc = "done"
    /\ SingleChain(nd_typ)
    /\ nd_depth = 2
    /\ \E p \in Paths(nd_typ) : NodeAt(nd_typ, p).k = "Array" /\ HasSlice(NodeAt(nd_typ, p))
    /\ \E p \in Paths(nd_typ) : NodeAt(nd_typ, p).k = "Reference" /\ HasSlice(NodeAt(nd_typ, p))

(* ---------------------------- C23 -------------------------------------- *)
RECURSIVE Follow(_, _, _)
\* the value reached from x by k steps of the map m, or by fewer when the
\* map has no entry for the value reached
Follow(m, x, k) ==
    IF k = 0 \/ x \notin DOMAIN m THEN x ELSE Follow(m, m[x], k - 1)

\* no value is reached from itself: every walk leaves the map within as
\* many steps as the map has entries
Acyclic(m) ==
    \A x \in DOMAIN m : Follow(m, x, Cardinality(DOMAIN m)) \notin DOMAIN m

\* the forward and the backward map of the scan and of the rewriter
ForwardMaps == {tracker.mapped_slice_values, mapped_slice_values}
BackwardMaps == {tracker.slice_parents, slice_parents}

\* C23: at every point of the scan the forward map and the backward map
\* have no cycle; a derived value is the successor of one value only, which
\* is its entry in the backward map; resolve_slice_value and
\* resolve_slice_parent return, for every value, a value with no entry in
\* the map they follow.
C23_ChainsAcyclic ==
    /\ \A m \in ForwardMaps \cup BackwardMaps : Acyclic(m)
    /\ \A a \in DOMAIN tracker.mapped_slice_values :
          \A b \in DOMAIN tracker.mapped_slice_values :
              tracker.mapped_slice_values[a] = tracker.mapped_slice_values[b] => a = b
    /\ \A a \in DOMAIN tracker.mapped_slice_values :
          /\ tracker.mapped_slice_values[a] \in DOMAIN tracker.slice_parents
          /\ tracker.slice_parents[tracker.mapped_slice_values[a]] = a
    /\ pc \in {"collect", "rewrite"} =>
          \A x \in DOMAIN ssa[fn].dfg :
              /\ \A m \in ForwardMaps : resolve_slice_value(m, x) \notin DOMAIN m
              /\ \A m \in BackwardMaps : resolve_slice_parent(m, x) \notin DOMAIN m

\* a chain of two links: a slice constant, the result of the push_back made
\* from it and the result of the pop_back made from that result
C23_Witness ==
    /\ pc = "rewrite"
    /\ \E a \in DOMAIN mapped_slice_values :
          /\ mapped_slice_values[a] \in DOMAIN mapped_slice_values
          /\ resolve_slice_value(mapped_slice_values, a)
                = mapped_slice_values[mapped_slice_values[a]]
          /\ resolve_slice_parent(slice_parents,
                                  mapped_slice_values[mapped_slice_values[a]]) = a

(* ---------------------------- C24 -------------------------------------- *)
RECURSIVE Inside(_, _)
\* the values held at any depth in the array or slice constant v
Inside(dfg, v) ==
    IF dfg[v].k # "Array" THEN {}
    ELSE UNION {{dfg[v].array[i]} \cup Inside(dfg, dfg[v].array[i]) :
                  i \in DOMAIN dfg[v].array}

\* the slice constants nested in the tracked values of the block
NestedSliceConstants ==
    {v \in UNION {Inside(ssa[fn].dfg, slice_values[i]) : i \in DOMAIN slice_values} :
        IsSlice(ssa[fn].dfg, v)}

\* the values recorded as a child in the slice sizes map
RecordedChildren ==
    UNION {{tracker.slice_sizes[k].children[i] :
              i \in DOMAIN tracker.slice_sizes[k].children} :
           k \in DOMAIN tracker.slice_sizes}

\* the rewrite scan of a block starts
RewriteStarts == pc = "rewrite" /\ ip = 1

\* C24: when the rewrite scan starts, nested_max is at least the row count
\* of every slice constant nested in a tracked value, and at least the
\* length recorded for every value recorded as a child in the slice sizes
\* map.
C24_BoundCoversNested ==
    RewriteStarts =>
        /\ \A v \in NestedSliceConstants : nested_max >= RowCount(ssa[fn].dfg, v)
        /\ \A c \in RecordedChildren : nested_max >= tracker.slice_sizes[c].size

(* ---------------------------- C25 -------------------------------------- *)
RECURSIVE WrittenIndices(_, _, _, _)
\* the indices of max_sizes that compute_slice_max_sizes writes when it is
\* called on a value at a depth: the depth itself when the value has
\* children, and what is written for each child one level down
WrittenIndices(mapped, slice_sizes, array_id0, depth) ==
    LET array_id == resolve_slice_value(mapped, array_id0)
    IN  IF array_id \notin DOMAIN slice_sizes THEN {}
        ELSE IF slice_sizes[array_id].children = <<>> THEN {}
        ELSE {depth} \cup
             UNION {WrittenIndices(mapped, slice_sizes,
                                   slice_sizes[array_id].children[i], depth + 1) :
                    i \in DOMAIN slice_sizes[array_id].children}

\* the collection scan of a block has ended without an error
ScanEnded == pc = "collect" /\ ip > Len(instructions) /\ tracker.ok

\* C25: for every key of the slice sizes map the scan built, the nesting
\* depth of the key's type is at least 1 and every index of max_sizes that
\* compute_slice_max_sizes writes for the key is below that depth.
C25_ResolverInRange ==
    ScanEnded =>
        \A k \in DOMAIN tracker.slice_sizes :
            LET depth == compute_nested_slice_depth(type_of_value(ssa[fn].dfg, k))
            IN  /\ depth >= 1
                /\ \A i \in WrittenIndices(tracker.mapped_slice_values,
                                            tracker.slice_sizes, k, 1) : i < depth


(* ------------------------------- C26 ---------------------------------- *)
\* the pair of a call expression: the source function and its type
PairOf(entry) == <<entry.func, entry.typ>>

\* C26: during monomorphise every pair of a source function and an
\* instantiated function type has one monomorphised id and is queued once:
\* a call expression is queued exactly when no earlier call expression had
\* its pair, two call expressions have the same id exactly when they have
\* the same pair, and the globals hold the id of every pair called.
C26_OneIdPerPair ==
    mono_pc \in {"body", "loop", "done"} =>
        /\ \A i, j \in DOMAIN call_log :
              (PairOf(call_log[i]) = PairOf(call_log[j]))
                  <=> (call_log[i].func_id = call_log[j].func_id)
        /\ \A j \in DOMAIN call_log :
              call_log[j].queued
                  <=> ~ \E i \in 1..(j - 1) : PairOf(call_log[i]) = PairOf(call_log[j])
        /\ \A j \in DOMAIN call_log :
              lookup_global(globals, call_log[j].func, call_log[j].typ)
                  = <<call_log[j].func_id>>
        /\ Cardinality({j \in DOMAIN call_log : call_log[j].queued})
              = next_function_id - FirstFunctionId

\* a function was called twice at one type and once at another type
C26_Witness ==
    /\ mono_pc = "done"
    /\ \E i, j, k \in DOMAIN call_log :
          /\ i < j
          /\ PairOf(call_log[i]) = PairOf(call_log[j])
          /\ ~ call_log[j].queued
          /\ call_log[k].func = call_log[i].func
          /\ call_log[k].typ # call_log[i].typ
          /\ call_log[k].func_id # call_log[i].func_id

(* ------------------------------- C27 ---------------------------------- *)
\* the ids called in the body of a monomorphised function
CalledIds(func) ==
    LET block == IF func.body.kind = "Constrain" THEN func.body.eq.rhs ELSE func.body
    IN  {block.calls[i].func_id : i \in DOMAIN block.calls}

\* C27: when monomorphise returns, main is first with id 0, the i-th
\* function after main has id i, and every id called is the id of exactly
\* one function returned.
C27_IdsInOrder ==
    mono_pc = "done" =>
        /\ functions # <<>>
        /\ functions[1].id = MainFuncId
        /\ functions[1].name = MainId
        /\ \A i \in DOMAIN functions : functions[i].id = i - 1
        /\ \A i \in DOMAIN functions : \A id \in CalledIds(functions[i]) :
              Cardinality({j \in DOMAIN functions : functions[j].id = id}) = 1

\* monomorphise returned main and three functions more, two of them
\* queued while main was translated
C27_Witness ==
    /\ mono_pc = "done"
    /\ Len(functions) = 4
    /\ Cardinality(CalledIds(functions[1])) = 2
    /\ CalledIds(functions[2]) = {3}

(* ------------------------------- C28 ---------------------------------- *)
\* C28: monomorphise does not stop before its queue is empty; a function
\* of the queue is translated with the locals of this function alone and
\* under its own bindings; between two functions of the queue and when
\* monomorphise returns no type variable is bound.
C28_QueueDrained ==
    /\ mono_pc # "panic"
    /\ mono_pc = "done" => queue = <<>>
    /\ mono_pc \in {"loop", "done"} => \A v \in TypeVars : cells[v] = Unbound
    /\ (mono_pc = "body" /\ current.id # MainFuncId) =>
          /\ DOMAIN locals = {interner[current.f].parameters[i].id :
                                 i \in DOMAIN interner[current.f].parameters}
          /\ \A v \in TypeVars :
                cells[v] = IF v \in DOMAIN current.bindings
                           THEN current.bindings[v] ELSE Unbound

(* ------------------------------- C29 ---------------------------------- *)
\* C29: compile_main leaves a main that returns Unit.  A main that
\* returned a value has one parameter more, named "return", of the type
\* returned, after the parameters translated, and its body is the
\* constraint that an identifier of this parameter equals the body
\* translated; a main that returned Unit keeps parameters and body.
C29_MainReturnsUnit ==
    [][(mono_pc = "body" /\ mono_pc' = "loop" /\ current.id = MainFuncId) =>
          /\ Len(functions') = 1
          /\ functions'[1].return_type = "Unit"
          /\ functions'[1].id = MainFuncId
          /\ IF interner[MainId].return_type # "Unit"
             THEN LET n == Len(current.parameters)
                      main == functions'[1]
                  IN  /\ Len(main.parameters) = n + 1
                      /\ SubSeq(main.parameters, 1, n) = current.parameters
                      /\ main.parameters[n + 1].name = "return"
                      /\ main.parameters[n + 1].typ
                            = convert_type(cells, interner[MainId].return_type)
                      /\ \A i \in 1..n : main.parameters[i].id # main.parameters[n + 1].id
                      /\ main.body.kind = "Constrain"
                      /\ main.body.eq.operator = "Equal"
                      /\ main.body.eq.lhs.id = main.parameters[n + 1].id
                      /\ main.body.eq.lhs.typ = main.parameters[n + 1].typ
                      /\ main.body.eq.rhs = [kind |-> "Block", calls |-> current.body]
             ELSE /\ functions'[1].parameters = current.parameters
                  /\ functions'[1].body = [kind |-> "Block", calls |-> current.body]]_vars

\* compile_main is over for a main with a parameter that returned a Field
\* and made a call
C29_Witness ==
    /\ mono_pc = "loop"
    /\ interner[MainId].return_type = "FieldElement"
    /\ Len(functions) = 1
    /\ Len(functions[1].parameters) = 2
    /\ functions[1].body.kind = "Constrain"
    /\ functions[1].body.eq.rhs.calls # <<>>


(* ------------------------------- C30 ---------------------------------- *)
\* the witnesses of the elements of an argument, in element order
WitnessesOf(argument) == [k \in DOMAIN argument.contents |-> argument.contents[k].witness]

\* the inputs the gate is to have for arguments (signature, message,
\* pub_key_x, pub_key_y)
ExpectedInputs ==
    [k \in 1..Len(WitnessesOf(call_expr[3]) \o WitnessesOf(call_expr[4])
                  \o WitnessesOf(call_expr[1]) \o WitnessesOf(call_expr[2])) |->
        [witness |-> (WitnessesOf(call_expr[3]) \o WitnessesOf(call_expr[4])
                      \o WitnessesOf(call_expr[1]) \o WitnessesOf(call_expr[2]))[k],
         num_bits |-> 8]]

\* C30: a call with four arguments either returns the error of preparing
\* the inputs and leaves the gates as they were, or appends one
\* EcdsaSecp256k1 gate whose inputs are the elements of pub_key_x, of
\* pub_key_y, of the signature and of the message, each of 8 bits, and
\* whose one output is a witness new to the evaluator.
C30_OneGadgetGate ==
    /\ gadget_pc \in {"start", "prepared", "returned"}
    /\ gadget_pc = "returned" =>
          IF \E a \in 1..GadgetArity : ~ call_expr[a].is_array
          THEN /\ ~ gadget_result.ok
               /\ evaluator = evaluator_before
          ELSE /\ gadget_result.ok
               /\ Len(evaluator.gates) = Len(evaluator_before.gates) + 1
               /\ SubSeq(evaluator.gates, 1, Len(evaluator_before.gates))
                     = evaluator_before.gates
               /\ LET gate == evaluator.gates[Len(evaluator.gates)]
                  IN  /\ gate.name = "EcdsaSecp256k1"
                      /\ gate.inputs = ExpectedInputs
                      /\ Len(gate.outputs) = 1
                      /\ gate.outputs[1] > evaluator_before.current_witness_index
                      /\ gate.outputs[1] = gadget_result.witness

====
